---- MODULE Spec2Model ----
(***************************************************************************)
(* Patristics viewer (src/app.js): the selection state and its asynchronous *)
(* loads, the per-work citation cache behind the "Bible References by Date" *)
(* chart, and the pure helpers the views share.                             *)
(*                                                                          *)
(* One step of the model is one browser task: an event handler, or the      *)
(* delivery of a network response together with every continuation that the *)
(* settled promise runs before the next task (microtasks are not            *)
(* interleaved with events).                                                *)
(***************************************************************************)
EXTENDS Integers, Sequences, FiniteSets, TLC

\* ── Bounds of the model ─────────────────────────────────────────────────────
MaxViz == 3        \* renderVizTab calls in one behaviour
MaxCalls == 3      \* chapter / verse / work selections in one behaviour
MaxHeat == 20      \* largest count and max handed to heatLevel
MaxChap == 2       \* chapters of one book of the counting index
MaxLoc == 3        \* characters of a verse locator handed to primaryVerseKey
MaxRefs == 3       \* citations of the chapter handed to renderVerseTable
MaxTok == 3        \* fragments a passage text handed to highlightPassage is made of
MaxPanelCalls == 2 \* selections in one behaviour of the panel specification
MaxPanelViz == 2   \* value of _vizVersion up to which that specification opens the viz tab
MaxWorks == 2      \* works of the index handed to the date charts

\* ── JavaScript null for the selection state ─────────────────────────────────
Null == "null"
NoChapter == 0
NoWork == 0

\* ── The corpus index (index.json.zst), read-only after init() ───────────────
\* category "" stands for a work entry without a category.
Works ==
  << [id |-> 1, hasYear |-> TRUE,  year |-> 100, category |-> "Apostolic", author |-> "Clement"],
     [id |-> 2, hasYear |-> TRUE,  year |-> 110, category |-> "",          author |-> "Jerome"],
     [id |-> 3, hasYear |-> FALSE, year |-> 0,   category |-> "Apostolic", author |-> "Hermas"] >>

WorkIds == {Works[i].id : i \in DOMAIN Works}

WorkOf(id) == Works[CHOOSE i \in DOMAIN Works : Works[i].id = id]

CatOf(w) == IF w.category = "" THEN "Other" ELSE w.category

AllCategories == {CatOf(Works[i]) : i \in DOMAIN Works}

\* manuscripts/{id}.json.zst: the citations of one work (data.refs); a verse
\* locator is a sequence of one-character strings, << "null" >> is null.
WorkRefs(id) ==
  CASE id = 1 -> << [book_slug |-> "genesis", chapter |-> 1, v |-> << "1" >>],
                    [book_slug |-> "john",    chapter |-> 3, v |-> << "1", "6" >>] >>
    [] id = 2 -> << [book_slug |-> "tobit",   chapter |-> 1, v |-> << "2" >>],
                    [book_slug |-> "genesis", chapter |-> 1, v |-> << "2", "-", "3" >>],
                    [book_slug |-> "genesis", chapter |-> 2, v |-> << "7" >>] >>
    [] OTHER  -> << [book_slug |-> "john",    chapter |-> 1, v |-> << "null" >>] >>

\* ── Heatmap ─────────────────────────────────────────────────────────────────
\* ratio = count / max is compared with 0.15, 0.40, 0.70.  An IEEE division is
\* correctly rounded and the three literals are the doubles nearest 3/20, 2/5
\* and 7/10, so for the integers a view can hold the comparison ratio < 0.15
\* is the exact comparison count * 100 < 15 * max (max = 0 with count > 0
\* gives Infinity, which is below no threshold).
heatLevelLe(count, max) ==
  IF count = 0 THEN 0
  ELSE IF count * 100 <= 15 * max THEN 1
  ELSE IF count * 100 <= 40 * max THEN 2
  ELSE IF count * 100 <= 70 * max THEN 3
  ELSE 4

heatLevel(count, max) ==
  IF count = 0 THEN 0
  ELSE IF count * 100 < 15 * max THEN 1
  ELSE IF count * 100 < 40 * max THEN 2
  ELSE IF count * 100 < 70 * max THEN 3
  ELSE 4

\* ── Bible References by Date: sections ──────────────────────────────────────
BOOK_GROUP_ORDER ==
  << "Pentateuch", "Historical", "Poetic", "Maj. Prophets", "Min. Prophets",
     "Deuterocanon", "Gospels", "Acts & Epistles", "Revelation" >>

Sections == {BOOK_GROUP_ORDER[i] : i \in DOMAIN BOOK_GROUP_ORDER}

\* BOOK_GROUP_MAP.get(slug) ?? 'Deuterocanon'
BOOK_GROUP_MAP(slug) ==
  IF slug \in {"genesis", "exodus", "leviticus", "numbers", "deuteronomy"}
    THEN "Pentateuch"
  ELSE IF slug \in {"joshua", "judges", "ruth", "1-samuel", "2-samuel", "1-kings",
                    "2-kings", "1-chronicles", "2-chronicles", "ezra", "nehemiah",
                    "esther"}
    THEN "Historical"
  ELSE IF slug \in {"job", "psalms", "proverbs", "ecclesiastes", "song-of-solomon"}
    THEN "Poetic"
  ELSE IF slug \in {"isaiah", "jeremiah", "lamentations", "ezekiel", "daniel"}
    THEN "Maj. Prophets"
  ELSE IF slug \in {"hosea", "joel", "amos", "obadiah", "jonah", "micah", "nahum",
                    "habakkuk", "zephaniah", "haggai", "zechariah", "malachi"}
    THEN "Min. Prophets"
  ELSE IF slug \in {"matthew", "mark", "luke", "john"}
    THEN "Gospels"
  ELSE IF slug \in {"acts", "romans", "1-corinthians", "2-corinthians", "galatians",
                    "ephesians", "philippians", "colossians", "1-thessalonians",
                    "2-thessalonians", "1-timothy", "2-timothy", "titus", "philemon",
                    "hebrews", "james", "1-peter", "2-peter", "1-john", "2-john",
                    "3-john", "jude"}
    THEN "Acts & Epistles"
  ELSE IF slug = "revelation"
    THEN "Revelation"
  ELSE "Deuterocanon"

ZeroCounts == [g \in Sections |-> 0]

\* The groupCounts map of one work's refs (an absent key reads as 0).
GroupCounts(refs) ==
  [g \in Sections |->
     Cardinality({i \in DOMAIN refs : BOOK_GROUP_MAP(refs[i].book_slug) = g})]

\* The filter without `w.year != null`.
FilterAnyYear(works, cats) ==
  SelectSeq(works, LAMBDA w : CatOf(w) \in cats)

\* works.filter(w => w.year != null && cats.has(w.category || 'Other'))
FilterWithYear(works, cats) ==
  SelectSeq(works, LAMBDA w : w.hasYear /\ CatOf(w) \in cats)

\* index.works.filter(w => w.year != null && cats.has(w.category || 'Other'))
WorksWithYear(cats) == FilterWithYear(Works, cats)

\* renderWorksTimeline: noYear
FilterNoYear(works, cats) ==
  SelectSeq(works, LAMBDA w : ~w.hasYear /\ CatOf(w) \in cats)

IdsOf(ws) == {ws[i].id : i \in DOMAIN ws}

MinYear(ws) == CHOOSE y \in {ws[i].year : i \in DOMAIN ws} :
                 \A j \in DOMAIN ws : y <= ws[j].year

MaxYear(ws) == CHOOSE y \in {ws[i].year : i \in DOMAIN ws} :
                 \A j \in DOMAIN ws : y >= ws[j].year

\* BucketWidth with <= for <.
BucketWidthLe(yearSpan) ==
  IF yearSpan <= 200 THEN 25
  ELSE IF yearSpan <= 500 THEN 50
  ELSE IF yearSpan <= 1000 THEN 100
  ELSE IF yearSpan <= 2000 THEN 200
  ELSE 500

BucketWidth(yearSpan) ==
  IF yearSpan < 200 THEN 25
  ELSE IF yearSpan < 500 THEN 50
  ELSE IF yearSpan < 1000 THEN 100
  ELSE IF yearSpan < 2000 THEN 200
  ELSE 500

AddCounts(acc, gc) == [g \in Sections |-> acc[g] + gc[g]]

RECURSIVE SumCounts(_, _)
\* groupTotals over the works of one bucket, in array order.
SumCounts(ws, data) ==
  IF ws = << >> THEN ZeroCounts
  ELSE AddCounts(SumCounts(Tail(ws), data), data[Head(ws).id])

RECURSIVE SumSections(_, _)
SumSections(gt, i) ==
  IF i > Len(BOOK_GROUP_ORDER) THEN 0
  ELSE gt[BOOK_GROUP_ORDER[i]] + SumSections(gt, i + 1)

RECURSIVE BuildBuckets(_, _, _, _, _)
\* for (let b = firstBucket; b <= maxYear; b += BUCKET) { ... }
BuildBuckets(b, maxYear, width, ws, data) ==
  IF b > maxYear THEN << >>
  ELSE LET wInBucket == SelectSeq(ws, LAMBDA w : w.year >= b /\ w.year < b + width)
           groupTotals == SumCounts(wInBucket, data)
           rest == BuildBuckets(b + width, maxYear, width, ws, data)
       IN  IF wInBucket = << >> THEN rest
           ELSE << [b |-> b, worksCount |-> Len(wInBucket),
                    groupTotals |-> groupTotals,
                    total |-> SumSections(groupTotals, 1)] >> \o rest

\* The active sections taken from the last of BOOK_GROUP_ORDER to the first.
ActiveGroupsReversed(ws, data) ==
  LET n == Len(BOOK_GROUP_ORDER)
  IN  SelectSeq([i \in 1..n |-> BOOK_GROUP_ORDER[n + 1 - i]],
                LAMBDA g : \E i \in DOMAIN ws : data[ws[i].id][g] > 0)

\* BOOK_GROUP_ORDER.filter(g => workRefsData.some(d => d.groupCounts.has(g)))
ActiveGroups(ws, data) ==
  SelectSeq(BOOK_GROUP_ORDER, LAMBDA g : \E i \in DOMAIN ws : data[ws[i].id][g] > 0)

\* The segments of one stacked bar, from the bottom up: for (const g of
\* activeGroups) with the sections of count 0 skipped.
BarSegments(bucket, groups) ==
  LET shown == SelectSeq(groups, LAMBDA g : bucket.groupTotals[g] > 0)
  IN  [i \in DOMAIN shown |-> [g |-> shown[i], count |-> bucket.groupTotals[shown[i]]]]


\* ── Category filter ─────────────────────────────────────────────────────────
RECURSIVE SumByCat(_, _)
SumByCat(by_cat, keys) ==
  IF keys = {} THEN 0
  ELSE LET k == CHOOSE x \in keys : TRUE
       IN  by_cat[k] + SumByCat(by_cat, keys \ {k})

\* filteredCount without the test `cats.has(cat)`.
filteredCountAll(ch, cats) ==
  IF ~ch.hasByCat THEN ch.count
  ELSE SumByCat(ch.by_cat, DOMAIN ch.by_cat)

\* by_cat is a function over the categories the entry lists; hasByCat = FALSE
\* is an entry of the old JSON format, without by_cat.
filteredCount(ch, cats) ==
  IF ~ch.hasByCat THEN ch.count
  ELSE SumByCat(ch.by_cat, DOMAIN ch.by_cat \cap cats)

\* index.books of the model's corpus.
IndexBooks ==
  << [slug |-> "genesis",
      chapters |-> << [ch |-> 1, count |-> 3, hasByCat |-> TRUE,
                       by_cat |-> [c \in {"Apostolic", "Other"} |-> IF c = "Other" THEN 1 ELSE 2]],
                      [ch |-> 2, count |-> 1, hasByCat |-> TRUE,
                       by_cat |-> [c \in {"Other"} |-> 1]] >>],
     [slug |-> "john",
      chapters |-> << [ch |-> 1, count |-> 1, hasByCat |-> TRUE,
                       by_cat |-> [c \in {"Apostolic"} |-> 1]],
                      [ch |-> 3, count |-> 1, hasByCat |-> TRUE,
                       by_cat |-> [c \in {"Apostolic"} |-> 1]] >>] >>

BookSlugs == {IndexBooks[i].slug : i \in DOMAIN IndexBooks}

BookOf(slug) == IndexBooks[CHOOSE i \in DOMAIN IndexBooks : IndexBooks[i].slug = slug]

ChapterNumbers == UNION {{BookOf(b).chapters[i].ch : i \in DOMAIN BookOf(b).chapters} : b \in BookSlugs}

RECURSIVE SumChapters(_, _)
\* book.chapters.reduce((s, ch) => s + filteredCount(ch, cats), 0)
SumChapters(chs, cats) ==
  IF chs = << >> THEN 0
  ELSE filteredCount(Head(chs), cats) + SumChapters(Tail(chs), cats)

\* ── The filtered count at each scope ────────────────────────────────────────
\* ch.by_cat || {}
ByCatOrEmpty(ch) == IF ch.hasByCat THEN ch.by_cat ELSE [c \in {} |-> 0]

\* renderSidebar: the chapter dots of a book, the chapters whose filtered count
\* is positive.
SidebarChapters(book, cats) ==
  SelectSeq([i \in DOMAIN book.chapters |->
               [ch |-> book.chapters[i].ch,
                count |-> filteredCount(book.chapters[i], cats)]],
            LAMBDA c : c.count > 0)

RECURSIVE SumCountField(_)
\* filteredChs.reduce((s, c) => s + c.count, 0)
SumCountField(chs) ==
  IF chs = << >> THEN 0 ELSE Head(chs).count + SumCountField(Tail(chs))

\* renderSidebar: a book has an entry when a chapter is left, with totalRefs
\* as its badge.
SidebarBadge(book, cats) ==
  [shown |-> SidebarChapters(book, cats) # << >>,
   total |-> SumCountField(SidebarChapters(book, cats))]

RECURSIVE TopBookTotal(_, _)
\* renderTopBooksChart: the total of one book, summed from ch.by_cat || {}.
TopBookTotal(chs, cats) ==
  IF chs = << >> THEN 0
  ELSE SumByCat(ByCatOrEmpty(Head(chs)), DOMAIN ByCatOrEmpty(Head(chs)) \cap cats)
         + TopBookTotal(Tail(chs), cats)

RECURSIVE InsertByTotal(_, _)
\* .sort((a, b) => b.total - a.total), stable
InsertByTotal(sorted, b) ==
  IF sorted = << >> THEN << b >>
  ELSE IF b.total - sorted[Len(sorted)].total > 0
    THEN InsertByTotal(SubSeq(sorted, 1, Len(sorted) - 1), b) \o << sorted[Len(sorted)] >>
    ELSE sorted \o << b >>

RECURSIVE SortByTotal(_)
SortByTotal(bs) ==
  IF bs = << >> THEN << >>
  ELSE InsertByTotal(SortByTotal(SubSeq(bs, 1, Len(bs) - 1)), bs[Len(bs)])

\* renderTopBooksChart: bookData, the bars of the chart.
TopBooks(books, cats) ==
  LET all == [i \in DOMAIN books |->
                [slug |-> books[i].slug, total |-> TopBookTotal(books[i].chapters, cats)]]
      sorted == SortByTotal(SelectSeq(all, LAMBDA b : b.total > 0))
  IN  SubSeq(sorted, 1, IF Len(sorted) < 20 THEN Len(sorted) ELSE 20)

RECURSIVE CatTotalChapters(_, _)
CatTotalChapters(chs, c) ==
  IF chs = << >> THEN 0
  ELSE (IF c \in DOMAIN ByCatOrEmpty(Head(chs)) THEN ByCatOrEmpty(Head(chs))[c] ELSE 0)
         + CatTotalChapters(Tail(chs), c)

RECURSIVE CatTotalBooks(_, _)
CatTotalBooks(books, c) ==
  IF books = << >> THEN 0
  ELSE CatTotalChapters(Head(books).chapters, c) + CatTotalBooks(Tail(books), c)

\* renderCategoryDonut: catTotals, one entry per checked category that some
\* chapter's by_cat lists.
CatTotals(books, cats) ==
  [c \in {x \in cats : \E i \in DOMAIN books : \E j \in DOMAIN books[i].chapters :
                          x \in DOMAIN ByCatOrEmpty(books[i].chapters[j])}
     |-> CatTotalBooks(books, c)]

\* renderCategoryDonut: total
DonutTotal(books, cats) == SumByCat(CatTotals(books, cats), DOMAIN CatTotals(books, cats))

\* ── Verse locators: strings as sequences of one-character strings ───────────
NullV == << "null" >>                      \* ref.v === null
Whole == << "w", "h", "o", "l", "e" >>     \* "whole"
AllVerses == << "a", "l", "l" >>           \* "all"
Digits == {"0", "1", "2", "3", "4", "5", "6", "7", "8", "9"}

RECURSIVE LeadingDigits(_)
\* the capture of /^(\d+)/
LeadingDigits(s) ==
  IF s = << >> \/ Head(s) \notin Digits THEN << >>
  ELSE << Head(s) >> \o LeadingDigits(Tail(s))

\* primaryVerseKey with /^(\d)/ for /^(\d+)/.
primaryVerseKeyOneDigit(v) ==
  IF v = NullV THEN Whole
  ELSE IF v # << >> /\ Head(v) \in Digits THEN << Head(v) >> ELSE v

primaryVerseKey(v) ==
  IF v = NullV THEN Whole
  ELSE LET m == LeadingDigits(v)
       IN  IF m # << >> THEN m ELSE v

DigitVal(c) ==
  CASE c = "0" -> 0 [] c = "1" -> 1 [] c = "2" -> 2 [] c = "3" -> 3 [] c = "4" -> 4
    [] c = "5" -> 5 [] c = "6" -> 6 [] c = "7" -> 7 [] c = "8" -> 8 [] c = "9" -> 9

RECURSIVE DigitsValue(_, _)
DigitsValue(ds, acc) ==
  IF ds = << >> THEN acc ELSE DigitsValue(Tail(ds), acc * 10 + DigitVal(Head(ds)))

\* bible/{slug}.json.zst: the citations of one chapter (chData.refs); w = 9 is
\* a work id the index does not list.
BookChapterRefs(slug, ch) ==
  CASE slug = "genesis" /\ ch = 1 ->
         << [w |-> 1, v |-> << "1" >>],
            [w |-> 9, v |-> << "1" >>],
            [w |-> 2, v |-> << "2", "-", "3" >>] >>
    [] slug = "genesis" /\ ch = 2 -> << [w |-> 2, v |-> << "7" >>] >>
    [] slug = "john" /\ ch = 1 -> << [w |-> 3, v |-> NullV] >>
    [] slug = "john" /\ ch = 3 -> << [w |-> 1, v |-> << "1", "6" >>],
                                    [w |-> 9, v |-> << "3" >>] >>
    [] OTHER -> << >>

\* ── Verse table ─────────────────────────────────────────────────────────────
RECURSIVE GroupKeys(_, _, _)
\* The keys of the groups map, in insertion order.
GroupKeys(refs, cats, seen) ==
  IF refs = << >> THEN << >>
  ELSE LET ref == Head(refs)
           key == primaryVerseKey(ref.v)
           kept == /\ ref.w \in WorkIds
                   /\ CatOf(WorkOf(ref.w)) \in cats
       IN  IF kept /\ key \notin seen
             THEN << key >> \o GroupKeys(Tail(refs), cats, seen \cup {key})
             ELSE GroupKeys(Tail(refs), cats, seen)

\* groups.get(key): the refs pushed under key.
GroupRefs(refs, cats, key) ==
  SelectSeq(refs, LAMBDA ref : /\ ref.w \in WorkIds
                               /\ CatOf(WorkOf(ref.w)) \in cats
                               /\ primaryVerseKey(ref.v) = key)

NaN == -1
\* parseInt(k, 10) of a key: its leading digit run, NaN when there is none.
ParseInt(k) == IF LeadingDigits(k) = << >> THEN NaN ELSE DigitsValue(LeadingDigits(k), 0)

\* (a, b) => parseInt(a, 10) - parseInt(b, 10) is positive; NaN is not.
CompareAfter(a, b) ==
  /\ ParseInt(a) # NaN
  /\ ParseInt(b) # NaN
  /\ ParseInt(a) - ParseInt(b) > 0

RECURSIVE InsertKey(_, _)
InsertKey(sorted, k) ==
  IF sorted = << >> THEN << k >>
  ELSE IF CompareAfter(sorted[Len(sorted)], k)
    THEN InsertKey(SubSeq(sorted, 1, Len(sorted) - 1), k) \o << sorted[Len(sorted)] >>
    ELSE sorted \o << k >>

RECURSIVE SortKeys(_)
\* Array.prototype.sort (stable) under the comparator above.
SortKeys(ks) ==
  IF ks = << >> THEN << >>
  ELSE InsertKey(SortKeys(SubSeq(ks, 1, Len(ks) - 1)), ks[Len(ks)])

OrderedKeys(keys) ==
  (IF \E i \in DOMAIN keys : keys[i] = Whole THEN << Whole >> ELSE << >>)
    \o SortKeys(SelectSeq(keys, LAMBDA k : k # Whole))

MaxOf(S) == CHOOSE m \in S : \A x \in S : x <= m

\* What renderVerseTable leaves in verseTbodyEl for chapter (b, c).
renderVerseTable(b, c, cats) ==
  LET refs == BookChapterRefs(b, c)
      keys == GroupKeys(refs, cats, {})
      maxCount == MaxOf({Len(GroupRefs(refs, cats, keys[i])) : i \in DOMAIN keys})
      ordered == OrderedKeys(keys)
  IN  IF refs = << >> THEN [kind |-> "norefs", book |-> b, chapter |-> c, rows |-> << >>]
      ELSE IF keys = << >> THEN [kind |-> "nocat", book |-> b, chapter |-> c, rows |-> << >>]
      ELSE [kind |-> "rows", book |-> b, chapter |-> c,
            rows |-> [i \in DOMAIN ordered |->
                        [key |-> ordered[i],
                         count |-> Len(GroupRefs(refs, cats, ordered[i])),
                         heat |-> heatLevel(Len(GroupRefs(refs, cats, ordered[i])), maxCount)]]]

\* ── Verse groups ────────────────────────────────────────────────────────────
\* The loop of renderVerseTable keeps a ref whatever its work's category.
KeepRefAnyCategory(ref, cats) == ref.w \in WorkIds

\* if (!work) continue; if (!cats.has(work.category || "Other")) continue;
KeepRef(ref, cats) ==
  /\ ref.w \in WorkIds
  /\ CatOf(WorkOf(ref.w)) \in cats

RECURSIVE BuildGroups(_, _, _, _)
\* The groups map after the loop over chData.refs from position i on: its
\* entries in insertion order, each with the positions of the refs pushed.
BuildGroups(refs, i, cats, groups) ==
  IF i > Len(refs) THEN groups
  ELSE IF ~KeepRef(refs[i], cats) THEN BuildGroups(refs, i + 1, cats, groups)
  ELSE LET key == primaryVerseKey(refs[i].v)
           at == {k \in DOMAIN groups : groups[k].key = key}
       IN  IF at = {}
             THEN BuildGroups(refs, i + 1, cats,
                              Append(groups, [key |-> key, refs |-> << i >>]))
             ELSE BuildGroups(refs, i + 1, cats,
                              [groups EXCEPT ![CHOOSE k \in at : TRUE].refs = Append(@, i)])

\* The comparator of the numeric keys as sort reads it: a NaN result counts
\* as +0.
SortCompare(a, b) ==
  IF ParseInt(a) = NaN \/ ParseInt(b) = NaN THEN 0 ELSE ParseInt(a) - ParseInt(b)

\* Array.prototype.sort fixes the result (the stable order) only for a
\* consistent comparator; with an opaque key between two different numbers
\* this one is not, and the order is whatever the engine's algorithm leaves.
ConsistentComparator(S) ==
  \A a, b, c \in S :
     /\ (SortCompare(a, b) = 0 /\ SortCompare(b, c) = 0) => SortCompare(a, c) = 0
     /\ (SortCompare(a, b) < 0 /\ SortCompare(b, c) < 0) => SortCompare(a, c) < 0
     /\ (SortCompare(a, b) = 0 /\ SortCompare(b, c) < 0) => SortCompare(a, c) < 0
     /\ (SortCompare(a, b) < 0 /\ SortCompare(b, c) = 0) => SortCompare(a, c) < 0

KeyPermutations(ks) ==
  {[i \in DOMAIN ks |-> ks[p[i]]] :
     p \in {q \in [DOMAIN ks -> DOMAIN ks] : \A i, j \in DOMAIN ks : q[i] = q[j] => i = j}}

SortOutcomes(ks) ==
  IF ConsistentComparator({ks[i] : i \in DOMAIN ks}) THEN {SortKeys(ks)}
  ELSE KeyPermutations(ks)

\* orderedKeys of renderVerseTable, for each order the sort can leave.
OrderedKeysOutcomes(keys) ==
  {(IF \E i \in DOMAIN keys : keys[i] = Whole THEN << Whole >> ELSE << >>) \o s :
     s \in SortOutcomes(SelectSeq(keys, LAMBDA k : k # Whole))}

\* ── Passage highlighting ────────────────────────────────────────────────────
\* A text is a sequence of characters; offsets count from 0 as in the code.
CharAt(t, i) == t[i + 1]

\* String.prototype.slice(a, b) for 0 <= a: the end is clamped to the length.
Slice(t, a, b) == SubSeq(t, a + 1, IF b > Len(t) THEN Len(t) ELSE b)

SliceFrom(t, a) == Slice(t, a, Len(t))

LowerLetters == {"a", "c", "i", "l", "v", "x"}
UpperLetters == {"A", "C", "I", "L", "V", "X"}

\* the `i` flag of the citation pattern
ToLower(c) ==
  CASE c = "A" -> "a" [] c = "C" -> "c" [] c = "I" -> "i" [] c = "L" -> "l"
    [] c = "V" -> "v" [] c = "X" -> "x" [] OTHER -> c

IsSpace(c) == c \in {" ", "\n"}                        \* \s
IsWordChar(c) == c \in Digits \cup LowerLetters \cup UpperLetters \cup {"_"}   \* \w
IsSeparator(c) == c \in {".", ":"} \/ IsSpace(c)       \* [.:\s]
IsSentenceEnd(c) == c \in {".", "!", "?"}
IsOpener(c) == c \in UpperLetters \cup {"\"", "(", "["}   \* [A-Z"(\[]
IsCloser(c) == c \in {"'", "\"", ")", "]"}              \* ['")\]]

\* esc: & < > " become entities, each written here as one token.
EscChar(c) ==
  CASE c = "&" -> "&amp;" [] c = "<" -> "&lt;" [] c = ">" -> "&gt;"
    [] c = "\"" -> "&quot;" [] OTHER -> c

esc(str) == [i \in DOMAIN str |-> EscChar(str[i])]

toRomanVals == << 100, 90, 50, 40, 10, 9, 5, 4, 1 >>
toRomanSyms == << << "c" >>, << "x", "c" >>, << "l" >>, << "x", "l" >>, << "x" >>,
                  << "i", "x" >>, << "v" >>, << "i", "v" >>, << "i" >> >>

RECURSIVE toRomanFrom(_, _)
toRomanFrom(n, i) ==
  IF i > Len(toRomanVals) THEN << >>
  ELSE IF n >= toRomanVals[i] THEN toRomanSyms[i] \o toRomanFrom(n - toRomanVals[i], i)
  ELSE toRomanFrom(n, i + 1)

toRoman(n) == toRomanFrom(n, 1)

DigitChar(d) == CHOOSE c \in Digits : DigitVal(c) = d

RECURSIVE DecimalString(_)
\* String(chapter) for a chapter number >= 0
DecimalString(n) ==
  IF n < 10 THEN << DigitChar(n) >>
  ELSE DecimalString(n \div 10) \o << DigitChar(n % 10) >>

RECURSIVE SplitFirst(_)
\* String(verseKey).split(/[-,]/)[0]
SplitFirst(v) ==
  IF v = << >> \/ Head(v) \in {"-", ","} THEN << >>
  ELSE << Head(v) >> \o SplitFirst(Tail(v))

RECURSIVE TrimStart(_)
TrimStart(s) == IF s # << >> /\ IsSpace(Head(s)) THEN TrimStart(Tail(s)) ELSE s

RECURSIVE TrimEnd(_)
TrimEnd(s) ==
  IF s # << >> /\ IsSpace(s[Len(s)]) THEN TrimEnd(SubSeq(s, 1, Len(s) - 1)) ELSE s

Trim(s) == TrimEnd(TrimStart(s))

\* /^\d+$/.test(s)
AllDigits(s) == s # << >> /\ \A i \in DOMAIN s : s[i] \in Digits

\* re.exec(text) === null
NoMatch == -1

\* A literal of the pattern matches at offset i, letters compared without case.
LiteralAt(t, i, lit) ==
  /\ i + Len(lit) <= Len(t)
  /\ \A k \in DOMAIN lit : ToLower(CharAt(t, i + k - 1)) = ToLower(lit[k])

RECURSIVE SeparatorRunEnd(_, _)
\* \s*[.:\s]+ from offset j: the verse number that follows starts with a digit,
\* so the two greedy runs together take every separator from j on.
SeparatorRunEnd(t, j) ==
  IF j < Len(t) /\ IsSeparator(CharAt(t, j)) THEN SeparatorRunEnd(t, j + 1) ELSE j

\* The rest of the pattern without its closing \b.
MatchAfterChapterNoBoundary(t, j, verseStart) ==
  LET k == SeparatorRunEnd(t, j)
  IN  IF k > j /\ LiteralAt(t, k, verseStart) THEN k + Len(verseStart) ELSE NoMatch

\* The rest of the pattern after the chapter alternative ended at offset j:
\* the end offset of the match, or NoMatch.
MatchAfterChapter(t, j, verseStart) ==
  LET k == SeparatorRunEnd(t, j)
      end == k + Len(verseStart)
  IN  IF /\ k > j
         /\ LiteralAt(t, k, verseStart)
         /\ (end = Len(t) \/ ~IsWordChar(CharAt(t, end)))       \* \b
        THEN end
        ELSE NoMatch

\* (?:ch|roman)\s*[.:\s]+verseStart\b tried at offset i, the arabic
\* alternative first.
MatchAt(t, i, ch, roman, verseStart) ==
  LET arabic == IF LiteralAt(t, i, ch) THEN MatchAfterChapter(t, i + Len(ch), verseStart)
                ELSE NoMatch
  IN  IF arabic # NoMatch THEN arabic
      ELSE IF LiteralAt(t, i, roman) THEN MatchAfterChapter(t, i + Len(roman), verseStart)
      ELSE NoMatch

\* re.exec(text): the leftmost match as [index, end], index = NoMatch for null.
FirstMatch(t, ch, roman, verseStart) ==
  LET starts == {i \in 0..Len(t) : MatchAt(t, i, ch, roman, verseStart) # NoMatch}
  IN  IF starts = {} THEN [index |-> NoMatch, end |-> NoMatch]
      ELSE LET i == CHOOSE x \in starts : \A y \in starts : x <= y
           IN  [index |-> i, end |-> MatchAt(t, i, ch, roman, verseStart)]

\* /^\s+[A-Z"(\[]/.test(x)
StartsSentence(x) ==
  \E n \in 1..Len(x) :
     /\ \A k \in 1..n : IsSpace(x[k])
     /\ n < Len(x)
     /\ IsOpener(x[n + 1])

\* /^\s*$/.test(x)
AllSpace(x) == \A k \in DOMAIN x : IsSpace(x[k])

RECURSIVE StripClosers(_)
\* x.replace(/^['")\]]*/, '')
StripClosers(x) == IF x # << >> /\ IsCloser(Head(x)) THEN StripClosers(Tail(x)) ELSE x

RECURSIVE ScanBack(_, _)
\* the backward while loop, from s
ScanBack(t, s) ==
  IF s <= 0 THEN s
  ELSE LET prev == CharAt(t, s - 1)
       IN  IF prev = "\n" /\ (s < 2 \/ CharAt(t, s - 2) = "\n") THEN s
           ELSE IF IsSentenceEnd(prev) /\ StartsSentence(SliceFrom(t, s)) THEN s
           ELSE ScanBack(t, s - 1)

RECURSIVE SkipSpaces(_, _, _)
\* while (s < m.index && text[s] === ' ') s++
SkipSpaces(t, s, index) ==
  IF s < index /\ CharAt(t, s) = " " THEN SkipSpaces(t, s + 1, index) ELSE s

RECURSIVE ScanForwardNoStrip(_, _)
\* The forward loop without the replace of the closing quotes and brackets.
ScanForwardNoStrip(t, e) ==
  IF e >= Len(t) THEN e
  ELSE LET c == CharAt(t, e)
           rest == SliceFrom(t, e + 1)
       IN  IF c = "\n" /\ e + 1 < Len(t) /\ CharAt(t, e + 1) = "\n" THEN e + 2
           ELSE IF IsSentenceEnd(c)
                   /\ (rest = << >> \/ StartsSentence(rest) \/ AllSpace(rest)) THEN e + 1
           ELSE ScanForwardNoStrip(t, e + 1)

RECURSIVE ScanForward(_, _)
\* the forward while loop, from e
ScanForward(t, e) ==
  IF e >= Len(t) THEN e
  ELSE LET c == CharAt(t, e)
           rest == StripClosers(SliceFrom(t, e + 1))
       IN  IF c = "\n" /\ e + 1 < Len(t) /\ CharAt(t, e + 1) = "\n" THEN e + 2
           ELSE IF IsSentenceEnd(c)
                   /\ (rest = << >> \/ StartsSentence(rest) \/ AllSpace(rest)) THEN e + 1
           ELSE ScanForward(t, e + 1)

\* The returned HTML without a <mark>: esc(text), or "" for no text.
Unmarked(text) ==
  [marked |-> FALSE, prefix |-> esc(text), mark |-> << >>, suffix |-> << >>]

\* The returned HTML with the mark over [s, e), its end one character late.
MarkedLate(text, s, e) ==
  [marked |-> TRUE,
   prefix |-> esc(Slice(text, 0, s)),
   mark |-> esc(Slice(text, s, e)),
   suffix |-> esc(SliceFrom(text, e + 1))]

\* esc(text.slice(0, s)) + <mark> esc(text.slice(s, e)) </mark> + esc(text.slice(e))
Marked(text, s, e) ==
  [marked |-> TRUE,
   prefix |-> esc(Slice(text, 0, s)),
   mark |-> esc(Slice(text, s, e)),
   suffix |-> esc(SliceFrom(text, e))]

\* highlightPassage(text, chapter, verseKey): text a string, chapter a number,
\* verseKey null or a string.
\* The positions highlightPassage computes: the match m (index and end), s
\* after the backward loop (back) and after the skip of blanks (s), and e;
\* NoMatch throughout when it returns before the scans.
HighlightScan(text, chapter, verseKey) ==
  LET none == [index |-> NoMatch, end |-> NoMatch, back |-> NoMatch,
               s |-> NoMatch, e |-> NoMatch]
  IN  IF text = << >> \/ verseKey = NullV \/ verseKey = << >> \/ verseKey = Whole THEN none
      ELSE IF ~AllDigits(Trim(SplitFirst(verseKey))) THEN none
      ELSE LET m == FirstMatch(text, DecimalString(chapter), toRoman(chapter),
                               Trim(SplitFirst(verseKey)))
           IN  IF m.index = NoMatch THEN none
               ELSE [index |-> m.index, end |-> m.end,
                     back |-> ScanBack(text, m.index),
                     s |-> SkipSpaces(text, ScanBack(text, m.index), m.index),
                     e |-> ScanForward(text, m.end)]

\* The verse number the pattern is built with; NullV when highlightPassage
\* returns before building it.
SearchedVerse(text, verseKey) ==
  IF text = << >> \/ verseKey = NullV \/ verseKey = << >> \/ verseKey = Whole THEN NullV
  ELSE IF ~AllDigits(Trim(SplitFirst(verseKey))) THEN NullV
  ELSE Trim(SplitFirst(verseKey))

highlightPassage(text, chapter, verseKey) ==
  IF text = << >> THEN Unmarked(<< >>)
  ELSE IF verseKey = NullV \/ verseKey = << >> \/ verseKey = Whole THEN Unmarked(text)
  ELSE LET verseStart == Trim(SplitFirst(verseKey))
       IN  IF ~AllDigits(verseStart) THEN Unmarked(text)
           ELSE LET m == FirstMatch(text, DecimalString(chapter), toRoman(chapter),
                                    verseStart)
                IN  IF m.index = NoMatch THEN Unmarked(text)
                    ELSE Marked(text,
                                SkipSpaces(text, ScanBack(text, m.index), m.index),
                                ScanForward(text, m.end))

\* ── Citation cards ──────────────────────────────────────────────────────────
\* worksById.get(r.w)?.author ?? "Unknown"
AuthorOf(w) == IF w \in WorkIds THEN WorkOf(w).author ELSE "Unknown"

\* The <option> values added to authorFilter after "All authors".
AuthorOptions(refs) == {AuthorOf(refs[i].w) : i \in DOMAIN refs}

RECURSIVE Cards(_, _)
\* One card per ref whose work resolves; applyCombinedFilter then hides the
\* cards of unchecked categories (the author dropdown is back at "All authors").
Cards(refs, cats) ==
  IF refs = << >> THEN << >>
  ELSE LET ref == Head(refs)
       IN  IF ref.w \notin WorkIds THEN Cards(Tail(refs), cats)
           ELSE << [w |-> ref.w, v |-> ref.v, author |-> WorkOf(ref.w).author,
                    hidden |-> CatOf(WorkOf(ref.w)) \notin cats] >>
                \o Cards(Tail(refs), cats)

\* What loadChapterFiltered renders for the rows's chapter and verse key.
renderFiltered(b, c, verseKey, cats) ==
  LET filteredRefs == SelectSeq(BookChapterRefs(b, c),
                                LAMBDA ref : primaryVerseKey(ref.v) = verseKey)
  IN  [list |-> [kind |-> "cards", book |-> b, chapter |-> c, verse |-> verseKey,
                 cards |-> Cards(filteredRefs, cats)],
       authors |-> AuthorOptions(filteredRefs)]

\* What renderChapter renders; the author filter is left alone when the
\* chapter has no refs.
renderChapter(b, c, cats, oldAuthors) ==
  LET refs == BookChapterRefs(b, c)
  IN  IF refs = << >>
        THEN [list |-> [kind |-> "norefs", book |-> b, chapter |-> c,
                        verse |-> AllVerses, cards |-> << >>],
              authors |-> oldAuthors]
        ELSE [list |-> [kind |-> "cards", book |-> b, chapter |-> c,
                        verse |-> AllVerses, cards |-> Cards(refs, cats)],
              authors |-> AuthorOptions(refs)]

\* What renderWork leaves in workRefsListEl.
renderWork(id) ==
  [kind |-> IF WorkRefs(id) = << >> THEN "norefs" ELSE "cards", work |-> id]


\* ── State ───────────────────────────────────────────────────────────────────
VARIABLES
  activeBook,      \* slug or Null
  activeChapter,   \* number or NoChapter
  activeVerse,     \* NullV = on verse table; a key, Whole or AllVerses otherwise
  activeMode,      \* "scripture" | "works" | "viz"
  activeWorkId,    \* manuscript id or NoWork
  hidden,          \* the hidden attribute of each panel
  bookCache,       \* slugs whose payload bookCache holds
  kjvLoad,         \* "none" | "pending" | "ok" | "null": kjvLoadPromise / kjvData
  passagesLoad,    \* "pending" | "ok" | "rejected": passagesLoadPromise / passagesData
  verseTbody,      \* content of verseTbodyEl
  refsList,        \* content of refsListEl
  authorFilter,    \* the options of authorFilter after "All authors"
  workRefsList,    \* content of workRefsListEl
  calls,           \* the async selection calls made so far, each with its position
  waiters,         \* indices of calls awaiting loadPassages(), in await order
  checked,         \* checkedCategories()
  vizVersion,      \* _vizVersion
  vizView,         \* what vizViewEl holds, and the renderVizTab call that built it
  runs,            \* runs[v]: the renderBibleRefsByDate call of version v
  workRefsCache,   \* function: cached work id -> refs
  resolvedOK,      \* history: work ids for which fetchWorkRefs resolved with data
  workLoaded,      \* history: work ids loadWork has fetched successfully
  hCount, hMax,    \* the arguments of one heatLevel call
  hLevel,          \* its result, once applied
  input,           \* the arguments of one call of a pure helper
  output           \* what that call returned or rendered, once applied

selVars == << activeBook, activeChapter, activeVerse, activeMode, activeWorkId, hidden >>
loadVars == << bookCache, kjvLoad, passagesLoad, calls, waiters, workLoaded >>
viewVars == << verseTbody, refsList, authorFilter, workRefsList >>
vizVars == << vizVersion, vizView, runs, workRefsCache, resolvedOK >>
heatVars == << hCount, hMax, hLevel >>
pureVars == << input, output >>
vars == << selVars, loadVars, viewVars, checked, vizVars, heatVars, pureVars >>

\* ── Mode switching: the panels' hidden attributes ───────────────────────────
showWelcome(h) ==
  [h EXCEPT !.welcome = FALSE, !.verseView = TRUE, !.chapterView = TRUE, !.workView = TRUE]

\* setMode(mode), apart from its renderVizTab() call.
setModePanels(mode, h, chapter, verse, workId) ==
  LET h1 == [h EXCEPT !.scripturePanel = (mode # "scripture"),
                      !.worksPanel = (mode # "works"),
                      !.sidebar = (mode = "viz"),
                      !.vizView = (mode # "viz")]
  IN  IF mode = "viz"
        THEN [h1 EXCEPT !.welcome = TRUE, !.verseView = TRUE,
                        !.chapterView = TRUE, !.workView = TRUE]
      ELSE IF mode = "scripture"
        THEN LET h2 == [h1 EXCEPT !.workView = TRUE]
             IN  IF chapter # NoChapter
                   THEN IF verse = NullV
                          THEN [h2 EXCEPT !.welcome = TRUE, !.verseView = FALSE,
                                          !.chapterView = TRUE]
                          ELSE [h2 EXCEPT !.welcome = TRUE, !.verseView = TRUE,
                                          !.chapterView = FALSE]
                   ELSE showWelcome([h2 EXCEPT !.verseView = TRUE])
      ELSE LET h2 == [h1 EXCEPT !.verseView = TRUE, !.chapterView = TRUE]
           IN  IF workId # NoWork
                 THEN [h2 EXCEPT !.welcome = TRUE, !.workView = FALSE]
                 ELSE showWelcome(h2)


\* ── Bible References by Date: the per-work cache and one chart run ──────────
NewSec == [loading |-> FALSE, msg |-> "none", groups |-> << >>, width |-> 0,
           buckets |-> << >>]

\* renderVizTab returned before the chart (no category checked).
NoRun == [st |-> "none", works |-> << >>, net |-> << >>, refs |-> << >>,
          order |-> << >>, sec |-> NewSec]

\* fetchWorkRefs: if (workRefsCache.has(workId)) return workRefsCache.get(workId)
fetchWorkRefsNoCache(cache, id) == FALSE

fetchWorkRefsHit(cache, id) == id \in DOMAIN cache

\* workRefsCache.set(workId, refs)
CacheSet(cache, id, refs) ==
  [i \in DOMAIN cache \cup {id} |-> IF i = id THEN refs ELSE cache[i]]

\* What fetchWorkRefs caches and returns when its fetch settles: data.refs, or
\* [] from the catch block.
FetchResult(id, ok) == IF ok THEN WorkRefs(id) ELSE << >>

\* renderBibleRefsByDate up to its await: net[id] is "cache" for a work served
\* from workRefsCache and "pending" for one whose fetch is in flight; refs[id]
\* is what `await fetchWorkRefs(w.id)` gave (<< >> until it has); order lists
\* the ids in the order their fetches settled.
StartRunOf(ws, cache) ==
  LET ids == IdsOf(ws)
  IN  IF ws = << >>
        THEN [st |-> "nodated", works |-> ws, net |-> << >>, refs |-> << >>,
              order |-> << >>, sec |-> [NewSec EXCEPT !.msg = "nodated"]]
        ELSE [st |-> "await", works |-> ws,
              net |-> [id \in ids |->
                         IF fetchWorkRefsHit(cache, id) THEN "cache" ELSE "pending"],
              refs |-> [id \in ids |->
                          IF fetchWorkRefsHit(cache, id) /\ id \in DOMAIN cache
                            THEN cache[id] ELSE << >>],
              order |-> << >>,
              sec |-> [NewSec EXCEPT !.loading = (\E id \in ids : id \notin DOMAIN cache)]]

\* The run that renderVizTab starts with the categories `cats` checked.
StartRun(cats, cache) == StartRunOf(WorksWithYear(cats), cache)

\* Promise.all over the per-work promises has resolved.
AnySettled(run) == \E id \in DOMAIN run.net : run.net[id] # "pending"

AllSettled(run) == \A id \in DOMAIN run.net : run.net[id] # "pending"

\* if (_vizVersion !== version) return;
IsStaleNever(version, cur) == FALSE

IsStale(version, cur) == cur # version

\* renderBibleRefsByDate after its await, for the run of `version` while
\* _vizVersion is `cur`.
AfterAwait(run, version, cur) ==
  IF IsStale(version, cur) THEN [run EXCEPT !.st = "stale"]
  ELSE LET data == [id \in DOMAIN run.refs |-> GroupCounts(run.refs[id])]
           groups == ActiveGroups(run.works, data)
           minYear == MinYear(run.works)
           maxYear == MaxYear(run.works)
           width == BucketWidth(maxYear - minYear)
           buckets == BuildBuckets((minYear \div width) * width, maxYear, width,
                                   run.works, data)
       IN  IF groups = << >> \/ buckets = << >>
             THEN [run EXCEPT !.st = "nodata",
                              !.sec = [NewSec EXCEPT !.msg = "nodata",
                                                     !.width = IF groups = << >> THEN 0 ELSE width]]
             ELSE [run EXCEPT !.st = "rendered",
                              !.sec = [NewSec EXCEPT !.groups = groups, !.width = width,
                                                     !.buckets = buckets]]

\* renderVizTab() with the checked categories `cats`.
renderVizTab(cats) ==
  LET version == vizVersion + 1
      run == StartRun(cats, workRefsCache)
  IN  /\ vizVersion < MaxViz
      /\ vizVersion' = version
      /\ vizView' = [gen |-> version, kind |-> IF cats = {} THEN "nocats" ELSE "sections"]
      /\ runs' = Append(runs,
                   IF cats = {} THEN NoRun
                   ELSE IF run.st = "await" /\ AllSettled(run)
                     THEN AfterAwait(run, version, version)
                     ELSE run)
      /\ UNCHANGED << workRefsCache, resolvedOK >>

\* The network answers the fetch that run v's fetchWorkRefs(id) is awaiting.
DeliverWorkRefs(v, id, ok) ==
  /\ v \in DOMAIN runs
  /\ id \in DOMAIN runs[v].net
  /\ runs[v].net[id] = "pending"
  /\ LET refs == FetchResult(id, ok)
         run == [runs[v] EXCEPT !.net[id] = IF ok THEN "ok" ELSE "fail",
                                !.refs[id] = refs,
                                !.order = Append(@, id)]
     IN  /\ workRefsCache' = CacheSet(workRefsCache, id, refs)
         /\ resolvedOK' = IF ok THEN resolvedOK \cup {id} ELSE resolvedOK
         /\ runs' = [runs EXCEPT ![v] = IF runs[v].st = "await" /\ AllSettled(run)
                                          THEN AfterAwait(run, v, vizVersion)
                                          ELSE run]
  /\ UNCHANGED << vizVersion, vizView, checked, selVars, loadVars, viewVars, heatVars, pureVars >>

\* ── Mode tabs and category checkboxes ───────────────────────────────────────
setMode(mode) ==
  /\ activeMode' = mode
  /\ hidden' = setModePanels(mode, hidden, activeChapter, activeVerse, activeWorkId)
  /\ IF mode = "viz" THEN renderVizTab(checked) ELSE UNCHANGED vizVars
  /\ UNCHANGED << activeBook, activeChapter, activeVerse, activeWorkId, loadVars,
                  viewVars, checked, heatVars, pureVars >>

\* card.hidden as applyCombinedFilter sets it, the author dropdown on "All authors".
applyCombinedFilter(list, cats) ==
  [list EXCEPT !.cards = [i \in DOMAIN list.cards |->
     [list.cards[i] EXCEPT !.hidden = CatOf(WorkOf(list.cards[i].w)) \notin cats]]]

\* A category checkbox changes: applyFilters().
applyFilters(c) ==
  LET cats == IF c \in checked THEN checked \ {c} ELSE checked \cup {c}
  IN  /\ checked' = cats
      /\ IF activeChapter # NoChapter /\ activeVerse = NullV /\ activeBook \in bookCache
           THEN verseTbody' = renderVerseTable(activeBook, activeChapter, cats)
           ELSE UNCHANGED verseTbody
      /\ IF activeChapter # NoChapter /\ activeVerse # NullV
           THEN refsList' = applyCombinedFilter(refsList, cats)
           ELSE UNCHANGED refsList
      /\ IF activeMode = "viz" THEN renderVizTab(cats) ELSE UNCHANGED vizVars
      /\ UNCHANGED << selVars, loadVars, authorFilter, workRefsList, heatVars, pureVars >>


\* ── Chapter, verse and work loads ───────────────────────────────────────────
NewCall(fn, b, c, w, v, pc) ==
  [fn |-> fn, book |-> b, chapter |-> c, work |-> w, verse |-> v, pc |-> pc]

ErrorList(b, c) ==
  [kind |-> "error", book |-> b, chapter |-> c, verse |-> AllVerses, cards |-> << >>]

LoadingList(b, c) ==
  [kind |-> "loading", book |-> b, chapter |-> c, verse |-> AllVerses, cards |-> << >>]

\* The code after `await loadPassages()` of one call, on the views
\* view = [refsList, authorFilter, workRefsList].
ResumeAfterPassages(call, view, cats) ==
  IF call.fn = "loadWork"
    THEN [view EXCEPT !.workRefsList = renderWork(call.work)]
  ELSE LET r == IF call.fn = "loadChapter"
                  THEN renderChapter(call.book, call.chapter, cats, view.authorFilter)
                  ELSE renderFiltered(call.book, call.chapter, call.verse, cats)
       IN  [view EXCEPT !.refsList = r.list, !.authorFilter = r.authors]

RECURSIVE ResumeAll(_, _, _)
\* The reactions of the settled passages promise run in await order.
ResumeAll(ws, view, cats) ==
  IF ws = << >> THEN view
  ELSE ResumeAll(Tail(ws), ResumeAfterPassages(calls[Head(ws)], view, cats), cats)

Views == [refsList |-> refsList, authorFilter |-> authorFilter, workRefsList |-> workRefsList]

\* `await loadPassages()` reached by a new call, the views being `base`: it
\* resumes at once when the store is loaded, throws at once when the memoized
\* promise has rejected, and otherwise waits for the fetch that init() started.
AwaitPassages(call, base) ==
  LET i == Len(calls) + 1
      shown == IF passagesLoad = "ok" THEN ResumeAfterPassages(call, base, checked)
               ELSE base
  IN  /\ calls' = Append(calls, [call EXCEPT !.pc =
                     CASE passagesLoad = "ok" -> "done"
                       [] passagesLoad = "rejected" -> "rejected"
                       [] OTHER -> "awaitPassages"])
      /\ waiters' = IF passagesLoad = "pending" THEN Append(waiters, i) ELSE waiters
      /\ refsList' = shown.refsList
      /\ authorFilter' = shown.authorFilter
      /\ workRefsList' = shown.workRefsList

\* The same await reached by call i once its own fetch has succeeded.
ResumeCall(i) ==
  LET shown == IF passagesLoad = "ok" THEN ResumeAfterPassages(calls[i], Views, checked)
               ELSE Views
  IN  /\ calls' = [calls EXCEPT ![i].pc =
                     CASE passagesLoad = "ok" -> "done"
                       [] passagesLoad = "rejected" -> "rejected"
                       [] OTHER -> "awaitPassages"]
      /\ waiters' = IF passagesLoad = "pending" THEN Append(waiters, i) ELSE waiters
      /\ refsList' = shown.refsList
      /\ authorFilter' = shown.authorFilter
      /\ workRefsList' = shown.workRefsList

\* A book button of the sidebar: toggleBook(slug).  The button exists when a
\* chapter of the book has a positive filtered count, and shows in scripture
\* mode.
toggleBook(slug) ==
  /\ activeMode = "scripture"
  /\ SidebarChapters(BookOf(slug), checked) # << >>
  /\ IF activeBook = slug
       THEN /\ activeBook' = Null
            /\ hidden' = showWelcome(hidden)
       ELSE /\ activeBook' = slug
            /\ UNCHANGED hidden
  /\ activeChapter' = NoChapter
  /\ activeVerse' = NullV
  /\ UNCHANGED << activeMode, activeWorkId, loadVars, viewVars, checked, vizVars,
                  heatVars, pureVars >>

\* A chapter dot of the sidebar, or the back-to-verses button.
showVerseView(b, c) ==
  /\ Len(calls) < MaxCalls
  /\ \/ /\ activeMode = "scripture"
        /\ \E i \in DOMAIN BookOf(b).chapters :
              /\ BookOf(b).chapters[i].ch = c
              /\ filteredCount(BookOf(b).chapters[i], checked) > 0
     \/ /\ ~hidden.chapterView
        /\ activeBook = b
        /\ activeChapter = c
  /\ activeBook' = b
  /\ activeChapter' = c
  /\ activeVerse' = NullV
  /\ activeMode' = "scripture"
  /\ hidden' = setModePanels("scripture", hidden, c, NullV, activeWorkId)
  /\ kjvLoad' = IF kjvLoad = "none" THEN "pending" ELSE kjvLoad
  /\ LET pc == IF b \notin bookCache THEN "awaitBook"
               ELSE IF kjvLoad \in {"ok", "null"} THEN "done"
               ELSE "awaitKjv"
     IN  /\ calls' = Append(calls, NewCall("showVerseView", b, c, NoWork, NullV, pc))
         /\ verseTbody' = IF pc = "done" THEN renderVerseTable(b, c, checked)
                          ELSE [kind |-> "loading", book |-> b, chapter |-> c, rows |-> << >>]
  /\ UNCHANGED << activeWorkId, bookCache, passagesLoad, waiters, workLoaded,
                  refsList, authorFilter, workRefsList, checked, vizVars, heatVars, pureVars >>

\* A book cell of the coverage heatmap or a bar of the top-books chart:
\* navigateToBook(slug), then loadChapter(slug, firstCh.ch).  The cell is
\* clickable only when the book's filtered total is positive, so firstCh exists.
navigateToBook(slug) ==
  /\ Len(calls) < MaxCalls
  /\ ~hidden.vizView
  /\ vizView.kind = "sections"
  /\ SumChapters(BookOf(slug).chapters, checked) > 0
  /\ LET chs == BookOf(slug).chapters
         first == CHOOSE i \in DOMAIN chs :
                    /\ filteredCount(chs[i], checked) > 0
                    /\ \A j \in 1..(i - 1) : filteredCount(chs[j], checked) = 0
         c == chs[first].ch
         call == NewCall("loadChapter", slug, c, NoWork, AllVerses, "awaitBook")
     IN  /\ activeBook' = slug
         /\ activeChapter' = c
         /\ activeVerse' = AllVerses
         /\ activeMode' = "scripture"
         /\ hidden' = setModePanels("scripture", hidden, c, AllVerses, activeWorkId)
         /\ IF slug \in bookCache
              THEN AwaitPassages(call, [Views EXCEPT !.refsList = LoadingList(slug, c)])
              ELSE /\ calls' = Append(calls, call)
                   /\ refsList' = LoadingList(slug, c)
                   /\ UNCHANGED << waiters, authorFilter, workRefsList >>
  /\ UNCHANGED << activeWorkId, bookCache, kjvLoad, passagesLoad, workLoaded,
                  verseTbody, checked, vizVars, heatVars, pureVars >>


\* A button of the works list, or a dot of the works timeline
\* (navigateToWork): loadWork(id).  The fetch is made on every call.
loadWork(id) ==
  /\ Len(calls) < MaxCalls
  /\ \/ /\ activeMode = "works"
        /\ checked = {} \/ CatOf(WorkOf(id)) \in checked
     \/ /\ ~hidden.vizView
        /\ vizView.kind = "sections"
        /\ WorkOf(id).hasYear
        /\ CatOf(WorkOf(id)) \in checked
  /\ activeWorkId' = id
  /\ activeMode' = "works"
  /\ hidden' = setModePanels("works", hidden, activeChapter, activeVerse, id)
  /\ workRefsList' = [kind |-> "loading", work |-> id]
  /\ calls' = Append(calls, NewCall("loadWork", Null, NoChapter, id, NullV, "awaitWork"))
  /\ UNCHANGED << activeBook, activeChapter, activeVerse, bookCache, kjvLoad, passagesLoad,
                  waiters, workLoaded, verseTbody, refsList, authorFilter, checked,
                  vizVars, heatVars, pureVars >>

\* A row of the verse table: loadChapterFiltered with the bookData and chData
\* the table was rendered from.
loadChapterFiltered(key) ==
  /\ Len(calls) < MaxCalls
  /\ ~hidden.verseView
  /\ verseTbody.kind = "rows"
  /\ \E i \in DOMAIN verseTbody.rows : verseTbody.rows[i].key = key
  /\ activeVerse' = key
  /\ hidden' = [hidden EXCEPT !.verseView = TRUE, !.chapterView = FALSE]
  /\ AwaitPassages(NewCall("loadChapterFiltered", verseTbody.book, verseTbody.chapter,
                           NoWork, key, "awaitPassages"), Views)
  /\ UNCHANGED << activeBook, activeChapter, activeMode, activeWorkId, bookCache, kjvLoad,
                  passagesLoad, workLoaded, verseTbody, checked, vizVars, heatVars, pureVars >>

\* The fetch of bible/{slug}.json.zst made by call i settles.
DeliverBook(i, ok) ==
  /\ i \in DOMAIN calls
  /\ calls[i].pc = "awaitBook"
  /\ bookCache' = IF ok THEN bookCache \cup {calls[i].book} ELSE bookCache
  /\ IF calls[i].fn = "showVerseView"
       THEN /\ calls' = [calls EXCEPT ![i].pc =
                           IF ~ok THEN "error"
                           ELSE IF kjvLoad \in {"ok", "null"} THEN "done"
                           ELSE "awaitKjv"]
            /\ verseTbody' =
                 IF ~ok THEN [kind |-> "error", book |-> calls[i].book,
                              chapter |-> calls[i].chapter, rows |-> << >>]
                 ELSE IF kjvLoad \in {"ok", "null"}
                   THEN renderVerseTable(calls[i].book, calls[i].chapter, checked)
                 ELSE verseTbody
            /\ UNCHANGED << waiters, refsList, authorFilter, workRefsList >>
       ELSE /\ IF ok THEN ResumeCall(i)
               ELSE /\ calls' = [calls EXCEPT ![i].pc = "error"]
                    /\ refsList' = ErrorList(calls[i].book, calls[i].chapter)
                    /\ UNCHANGED << waiters, authorFilter, workRefsList >>
            /\ UNCHANGED verseTbody
  /\ UNCHANGED << selVars, kjvLoad, passagesLoad, workLoaded, checked, vizVars, heatVars, pureVars >>

\* The fetch of manuscripts/{id}.json.zst made by loadWork call i settles.
DeliverWork(i, ok) ==
  /\ i \in DOMAIN calls
  /\ calls[i].pc = "awaitWork"
  /\ workLoaded' = IF ok THEN workLoaded \cup {calls[i].work} ELSE workLoaded
  /\ IF ok THEN ResumeCall(i)
     ELSE /\ calls' = [calls EXCEPT ![i].pc = "error"]
          /\ workRefsList' = [kind |-> "error", work |-> calls[i].work]
          /\ UNCHANGED << waiters, refsList, authorFilter >>
  /\ UNCHANGED << selVars, bookCache, kjvLoad, passagesLoad, verseTbody, checked,
                  vizVars, heatVars, pureVars >>

\* The fetch of kjv.json.zst settles; loadKJV turns a failure into null.  The
\* showVerseView calls whose book is there go on, in call order.
DeliverKJV(ok) ==
  /\ kjvLoad = "pending"
  /\ kjvLoad' = IF ok THEN "ok" ELSE "null"
  /\ LET ready == {i \in DOMAIN calls : calls[i].pc = "awaitKjv"}
     IN  /\ calls' = [i \in DOMAIN calls |->
                        IF i \in ready THEN [calls[i] EXCEPT !.pc = "done"] ELSE calls[i]]
         /\ verseTbody' =
              IF ready = {} THEN verseTbody
              ELSE LET last == MaxOf(ready)
                   IN  renderVerseTable(calls[last].book, calls[last].chapter, checked)
  /\ UNCHANGED << selVars, bookCache, passagesLoad, waiters, workLoaded, refsList,
                  authorFilter, workRefsList, checked, vizVars, heatVars, pureVars >>

\* The fetch of passages.json.zst that init() started settles: every call
\* awaiting loadPassages() resumes, or is rejected with nothing to catch it.
DeliverPassages(ok) ==
  /\ passagesLoad = "pending"
  /\ passagesLoad' = IF ok THEN "ok" ELSE "rejected"
  /\ calls' = [i \in DOMAIN calls |->
                 IF calls[i].pc = "awaitPassages"
                   THEN [calls[i] EXCEPT !.pc = IF ok THEN "done" ELSE "rejected"]
                   ELSE calls[i]]
  /\ waiters' = << >>
  /\ LET shown == IF ok THEN ResumeAll(waiters, Views, checked) ELSE Views
     IN  /\ refsList' = shown.refsList
         /\ authorFilter' = shown.authorFilter
         /\ workRefsList' = shown.workRefsList
  /\ UNCHANGED << selVars, bookCache, kjvLoad, workLoaded, verseTbody, checked,
                  vizVars, heatVars, pureVars >>

\* ── The calls of heatLevel ──────────────────────────────────────────────────
\* renderSidebar: Math.max(...filteredChs.map(c => c.count))
SidebarMaxCount(filteredChs) ==
  MaxOf({filteredChs[i].count : i \in DOMAIN filteredChs})

\* renderSidebar: heatLevel(ch.count, maxCount) for each dot of each book that
\* has an entry.
SidebarHeatCalls(books, cats) ==
  UNION {LET filteredChs == SidebarChapters(books[b], cats)
         IN  {[by |-> "sidebar", book |-> b, at |-> i,
               count |-> filteredChs[i].count,
               max |-> SidebarMaxCount(filteredChs)] : i \in DOMAIN filteredChs} :
           b \in DOMAIN books}

\* renderBibleHeatmap: Math.max(1, ...index.books.map(b => total of b))
HeatmapMaxTotal(books, cats) ==
  MaxOf({1} \cup {SumChapters(books[b].chapters, cats) : b \in DOMAIN books})

\* renderBibleHeatmap: heatLevel(total, maxTotal) for each book.
HeatmapHeatCalls(books, cats) ==
  {[by |-> "heatmap", book |-> b, at |-> 0,
    count |-> SumChapters(books[b].chapters, cats),
    max |-> HeatmapMaxTotal(books, cats)] : b \in DOMAIN books}

\* The largest group counted by the number of groups.
VerseTableMaxCountOfGroups(groups) == Len(groups)

\* renderVerseTable: Math.max(...[...groups.values()].map(r => r.length))
VerseTableMaxCount(groups) ==
  MaxOf({Len(groups[k].refs) : k \in DOMAIN groups})

\* renderVerseTable: heatLevel(count, maxCount) for each key of orderedKeys.
VerseTableHeatCalls(groups, ordered) ==
  {[by |-> "verseTable", book |-> 0, at |-> i,
    count |-> Len(groups[CHOOSE k \in DOMAIN groups : groups[k].key = ordered[i]].refs),
    max |-> VerseTableMaxCount(groups)] : i \in DOMAIN ordered}

\* ── One application of heatLevel ────────────────────────────────────────────
ApplyHeatLevel ==
  /\ ~hLevel.done
  /\ hLevel' = [done |-> TRUE, level |-> heatLevel(hCount, hMax)]
  /\ UNCHANGED << hCount, hMax, selVars, loadVars, viewVars, checked, vizVars, pureVars >>

\* ── The counts of one index under one set of checked categories ─────────────
\* renderSidebar applied to input.index and input.cats, and renderBibleHeatmap,
\* renderTopBooksChart and renderCategoryDonut as renderVizTab calls them: not
\* at all when no category is checked.
RenderCounts ==
  /\ input.fn = "counts"
  /\ ~output.done
  /\ LET books == input.index
         cats == input.cats
     IN  output' =
           [done |-> TRUE,
            chapters |-> [b \in DOMAIN books |->
                            [i \in DOMAIN books[b].chapters |->
                               filteredCount(books[b].chapters[i], cats)]],
            badges |-> [b \in DOMAIN books |-> SidebarBadge(books[b], cats)],
            charts |-> cats # {},
            cells |-> IF cats = {} THEN << >>
                      ELSE [b \in DOMAIN books |-> SumChapters(books[b].chapters, cats)],
            bars |-> IF cats = {} THEN << >> ELSE TopBooks(books, cats),
            donut |-> IF cats = {} THEN 0 ELSE DonutTotal(books, cats),
            heat |-> SidebarHeatCalls(books, cats)
                       \cup (IF cats = {} THEN {} ELSE HeatmapHeatCalls(books, cats))]
  /\ UNCHANGED << input, selVars, loadVars, viewVars, checked, vizVars, heatVars >>

\* ── One application of primaryVerseKey ──────────────────────────────────────
ApplyPrimaryVerseKey ==
  /\ input.fn = "primaryVerseKey"
  /\ ~output.done
  /\ output' = [done |-> TRUE, key |-> primaryVerseKey(input.v)]
  /\ UNCHANGED << input, selVars, loadVars, viewVars, checked, vizVars, heatVars >>

\* ── The verse table of one chapter's citations ──────────────────────────────
\* renderVerseTable on chData.refs = input.refs with input.cats checked: the
\* groups and the order of the rows.
GroupVerses ==
  /\ input.fn = "renderVerseTable"
  /\ ~output.done
  /\ LET groups == BuildGroups(input.refs, 1, input.cats, << >>)
         keys == [k \in DOMAIN groups |-> groups[k].key]
     IN  \E ordered \in OrderedKeysOutcomes(keys) :
            output' = [done |-> TRUE,
                       kind |-> IF input.refs = << >> THEN "norefs"
                                ELSE IF groups = << >> THEN "nocat" ELSE "rows",
                       groups |-> groups,
                       ordered |-> IF input.refs = << >> THEN << >> ELSE ordered,
                       heat |-> IF input.refs = << >> \/ groups = << >> THEN {}
                                ELSE VerseTableHeatCalls(groups, ordered)]
  /\ UNCHANGED << input, selVars, loadVars, viewVars, checked, vizVars, heatVars >>

\* ── One application of highlightPassage ─────────────────────────────────────
ApplyHighlightPassage ==
  /\ input.fn = "highlightPassage"
  /\ ~output.done
  /\ output' = [done |-> TRUE,
                html |-> highlightPassage(input.text, input.chapter, input.v),
                verse |-> SearchedVerse(input.text, input.v),
                scan |-> HighlightScan(input.text, input.chapter, input.v)]
  /\ UNCHANGED << input, selVars, loadVars, viewVars, checked, vizVars, heatVars >>

\* ── The date charts of one work list ────────────────────────────────────────
\* renderVizTab with input.cats checked over the works input.works, every
\* work's citations being in workRefsCache already: the note that
\* renderWorksTimeline ends with, and the section of renderBibleRefsByDate with
\* its stacked bars.
RenderDateCharts ==
  /\ input.fn = "dateCharts"
  /\ ~output.done
  /\ LET cats == input.cats
         cache == [id \in IdsOf(input.works) |-> input.refs[id]]
         started == StartRunOf(FilterWithYear(input.works, cats), cache)
         run == IF started.st = "await" /\ AllSettled(started)
                  THEN AfterAwait(started, 1, 1) ELSE started
     IN  output' =
           IF cats = {}
             THEN [done |-> TRUE, charts |-> FALSE, noYear |-> 0, run |-> NoRun,
                   bars |-> << >>]
             ELSE [done |-> TRUE, charts |-> TRUE,
                   noYear |-> Len(FilterNoYear(input.works, cats)),
                   run |-> run,
                   bars |-> [k \in DOMAIN run.sec.buckets |->
                               BarSegments(run.sec.buckets[k], run.sec.groups)]]
  /\ UNCHANGED << input, selVars, loadVars, viewVars, checked, vizVars, heatVars >>

\* ── Initial state: init() has run with the index loaded ─────────────────────
AppInit ==
  /\ activeBook = Null
  /\ activeChapter = NoChapter
  /\ activeVerse = NullV
  /\ activeMode = "viz"
  /\ activeWorkId = NoWork
  /\ hidden = [welcome |-> TRUE, verseView |-> TRUE, chapterView |-> TRUE,
               workView |-> TRUE, vizView |-> FALSE, sidebar |-> TRUE,
               scripturePanel |-> TRUE, worksPanel |-> TRUE]
  /\ bookCache = {}
  /\ kjvLoad = "none"
  /\ passagesLoad = "pending"
  /\ verseTbody = [kind |-> "empty", book |-> Null, chapter |-> NoChapter, rows |-> << >>]
  /\ refsList = [kind |-> "empty", book |-> Null, chapter |-> NoChapter,
                 verse |-> NullV, cards |-> << >>]
  /\ authorFilter = {}
  /\ workRefsList = [kind |-> "empty", work |-> NoWork]
  /\ calls = << >>
  /\ waiters = << >>
  /\ workLoaded = {}
  /\ checked = AllCategories
  /\ vizVersion = 1
  /\ vizView = [gen |-> 1, kind |-> "sections"]
  /\ runs = << StartRun(AllCategories, << >>) >>
  /\ workRefsCache = << >>
  /\ resolvedOK = {}

HeatIdle ==
  /\ hCount = 0
  /\ hMax = 0
  /\ hLevel = [done |-> FALSE, level |-> 0]

\* No pure helper is being applied on its own.
PureIdle ==
  /\ input = [fn |-> "none"]
  /\ output = [done |-> FALSE]

Init == AppInit /\ HeatIdle /\ PureIdle

\* ── The visualizations tab with its chart fetches ───────────────────────────
NextViz ==
  \/ \E c \in AllCategories : applyFilters(c)
  \/ setMode("viz")
  \/ \E v \in 1..MaxViz, id \in WorkIds, ok \in BOOLEAN : DeliverWorkRefs(v, id, ok)

SpecViz == Init /\ [][NextViz]_vars

\* ── Chapter, verse and work selection with its fetches ──────────────────────
NextSel ==
  \/ \E b \in BookSlugs, c \in ChapterNumbers : showVerseView(b, c)
  \/ \E b \in BookSlugs : navigateToBook(b)
  \/ \E id \in WorkIds : loadWork(id)
  \/ \E i \in DOMAIN verseTbody.rows : loadChapterFiltered(verseTbody.rows[i].key)
  \/ \E i \in 1..MaxCalls, ok \in BOOLEAN : DeliverBook(i, ok)
  \/ \E i \in 1..MaxCalls, ok \in BOOLEAN : DeliverWork(i, ok)
  \/ \E ok \in BOOLEAN : DeliverKJV(ok)
  \/ \E ok \in BOOLEAN : DeliverPassages(ok)

SpecSel == Init /\ [][NextSel]_vars

\* ── Mode tabs, book toggles and selections: the main panels ─────────────────
NextPanels ==
  \/ \E mode \in {"scripture", "works"} : setMode(mode)
  \/ vizVersion < MaxPanelViz /\ setMode("viz")
  \/ \E b \in BookSlugs : toggleBook(b)
  \/ Len(calls) < MaxPanelCalls /\ \E b \in BookSlugs, c \in ChapterNumbers : showVerseView(b, c)
  \/ Len(calls) < MaxPanelCalls /\ \E b \in BookSlugs : navigateToBook(b)
  \/ Len(calls) < MaxPanelCalls /\ \E id \in WorkIds : loadWork(id)
  \/ Len(calls) < MaxPanelCalls /\ \E i \in DOMAIN verseTbody.rows :
                                       loadChapterFiltered(verseTbody.rows[i].key)
  \/ \E i \in 1..MaxPanelCalls, ok \in BOOLEAN : DeliverBook(i, ok)
  \/ \E i \in 1..MaxPanelCalls, ok \in BOOLEAN : DeliverWork(i, ok)
  \/ \E ok \in BOOLEAN : DeliverKJV(ok)
  \/ \E ok \in BOOLEAN : DeliverPassages(ok)

SpecPanels == Init /\ [][NextPanels]_vars

\* ── heatLevel over every pair of arguments up to MaxHeat ────────────────────
HeatInit ==
  /\ AppInit
  /\ PureIdle
  /\ hCount \in 0..MaxHeat
  /\ hMax \in 0..MaxHeat
  /\ hLevel = [done |-> FALSE, level |-> 0]

NextHeat == ApplyHeatLevel

SpecHeat == HeatInit /\ [][NextHeat]_vars

\* ── The counting scopes over small indexes ──────────────────────────────────
\* Chapter entries: two with a breakdown, "Gnostic" being a category no work
\* of the index has; one with an empty breakdown; one of the old format.
ChapterPool ==
  { [ch |-> 1, count |-> 3, hasByCat |-> TRUE,
     by_cat |-> [c \in {"Apostolic", "Other"} |-> IF c = "Other" THEN 1 ELSE 2]],
    [ch |-> 1, count |-> 2, hasByCat |-> TRUE,
     by_cat |-> [c \in {"Other", "Gnostic"} |-> 1]],
    [ch |-> 1, count |-> 0, hasByCat |-> TRUE, by_cat |-> [c \in {} |-> 0]],
    [ch |-> 1, count |-> 2, hasByCat |-> FALSE, by_cat |-> [c \in {} |-> 0]] }

\* The chapter lists of a book, numbered from 1.
ChapterLists ==
  UNION {{[i \in 1..n |-> [f[i] EXCEPT !.ch = i]] : f \in [1..n -> ChapterPool]} :
           n \in 1..MaxChap}

CountInit ==
  /\ AppInit
  /\ HeatIdle
  /\ input \in {[fn |-> "counts",
                 index |-> << [slug |-> "genesis", chapters |-> c1],
                              [slug |-> "john", chapters |-> c2] >>,
                 cats |-> cs] :
                  c1 \in ChapterLists, c2 \in ChapterLists, cs \in SUBSET AllCategories}
  /\ output = [done |-> FALSE]

NextCount == RenderCounts

SpecCount == CountInit /\ [][NextCount]_vars

\* ── primaryVerseKey over null and every short string ────────────────────────
LocatorChars == {"1", "3", "7", "-", "x"}

Locators ==
  {NullV} \cup UNION {[1..n -> LocatorChars] : n \in 0..MaxLoc}

KeyInit ==
  /\ AppInit
  /\ HeatIdle
  /\ input \in {[fn |-> "primaryVerseKey", v |-> v] : v \in Locators}
  /\ output = [done |-> FALSE]

NextKey == ApplyPrimaryVerseKey

SpecKey == KeyInit /\ [][NextKey]_vars

\* ── The verse table over short citation lists ───────────────────────────────
\* Citations of work 1 ("Apostolic"), work 2 (no category) and work 9 (not in
\* the index), at the whole chapter, at verses 9 and 10, at the range 9-1 and
\* at the opaque locator "x".
RefPool ==
  {[w |-> w, v |-> v] :
     w \in {1, 2, 9},
     v \in {NullV, << "9" >>, << "1", "0" >>, << "9", "-", "1" >>, << "x" >>}}

GroupInit ==
  /\ AppInit
  /\ HeatIdle
  /\ input \in {[fn |-> "renderVerseTable", refs |-> refs, cats |-> cs] :
                  refs \in UNION {[1..n -> RefPool] : n \in 0..MaxRefs},
                  cs \in SUBSET AllCategories}
  /\ output = [done |-> FALSE]

NextGroup == GroupVerses

SpecGroup == GroupInit /\ [][NextGroup]_vars

\* ── highlightPassage over short passages ────────────────────────────────────
\* The fragments passages are made of: citations of chapter 4 verse 7 in
\* arabic and roman numerals, a sentence end before a capital, a lower-case
\* word, punctuation, line breaks, a closing quote, markup and a digit.
TextFragments ==
  { << "4", ":", "7" >>, << "i", "v", ".", " ", "7" >>, << ".", " ", "A" >>,
    << "." >>, << " " >>, << "\n", "\n" >>, << "\n" >>,
    << "?", "\"" >>, << "<" >>, << "1" >> }

RECURSIVE Flatten(_)
Flatten(fs) == IF fs = << >> THEN << >> ELSE Head(fs) \o Flatten(Tail(fs))

Texts == {Flatten(fs) : fs \in UNION {[1..n -> TextFragments] : n \in 0..MaxTok}}

\* ref.v: null, "whole", "", "7", "7-9", " 7", "7a"
MarkLocators ==
  { NullV, Whole, << >>, << "7" >>, << "7", "-", "9" >>, << " ", "7" >>, << "7", "a" >> }

MarkChapters == {4, 14}

MarkInit ==
  /\ AppInit
  /\ HeatIdle
  /\ input \in {[fn |-> "highlightPassage", text |-> t, chapter |-> c, v |-> v] :
                  t \in Texts, c \in MarkChapters, v \in MarkLocators}
  /\ output = [done |-> FALSE]

NextMark == ApplyHighlightPassage

SpecMark == MarkInit /\ [][NextMark]_vars

\* ── The date charts over short work lists ───────────────────────────────────
\* Years at both sides of every threshold of the bucket width.
EraYears == {0, 199, 200, 499, 500, 999, 1000, 1999, 2000}

\* index.works entries: dated or not, with a category or without.
EraWorks ==
  {[id |-> 0, hasYear |-> TRUE, year |-> y, category |-> "Apostolic", author |-> "Clement"] :
     y \in EraYears}
  \cup {[id |-> 0, hasYear |-> TRUE, year |-> y, category |-> "", author |-> "Clement"] :
          y \in {0, 2000}}
  \cup {[id |-> 0, hasYear |-> FALSE, year |-> 0, category |-> c, author |-> "Clement"] :
          c \in {"Apostolic", ""}}

\* data.refs of the work at each place of the list: New Testament before Old,
\* an unknown slug, one section only. The work at place `lost` of EraInit has
\* no refs (an empty list, or a fetch that failed and was cached as []).
EraRefs(id) ==
  CASE id = 1 -> << [book_slug |-> "john"], [book_slug |-> "genesis"] >>
    [] id = 2 -> << [book_slug |-> "revelation"], [book_slug |-> "tobit"],
                    [book_slug |-> "genesis"] >>
    [] OTHER  -> << [book_slug |-> "psalms"] >>

EraInit ==
  /\ AppInit
  /\ HeatIdle
  /\ input \in {[fn |-> "dateCharts",
                 works |-> [i \in DOMAIN ws |-> [ws[i] EXCEPT !.id = i]],
                 refs |-> [i \in DOMAIN ws |-> IF i = lost THEN << >> ELSE EraRefs(i)],
                 cats |-> cs] :
                  ws \in UNION {[1..n -> EraWorks] : n \in 1..MaxWorks},
                  lost \in 0..MaxWorks,
                  cs \in SUBSET AllCategories}
  /\ output = [done |-> FALSE]

NextEra == RenderDateCharts

SpecEra == EraInit /\ [][NextEra]_vars

\* ── The callers of heatLevel: sidebar and book heatmap, verse table ─────────
HeatRefPool ==
  {[w |-> w, v |-> v] : w \in {1, 2}, v \in {NullV, << "9" >>, << "1", "0" >>}}

HeatCallInit ==
  \/ CountInit
  \/ /\ AppInit
     /\ HeatIdle
     /\ input \in {[fn |-> "renderVerseTable", refs |-> refs, cats |-> cs] :
                     refs \in UNION {[1..n -> HeatRefPool] : n \in 0..MaxRefs},
                     cs \in SUBSET AllCategories}
     /\ output = [done |-> FALSE]

NextHeatCalls == RenderCounts \/ GroupVerses

SpecHeatCalls == HeatCallInit /\ [][NextHeatCalls]_vars

Next == NextViz \/ NextSel \/ NextHeat

Spec == Init /\ [][Next]_vars


\* ═══ Properties ══════════════════════════════════════════════════════════════

\* C1 (SpecViz): a chart run that is no longer the latest generation writes
\* nothing: in every step, the section of each run other than the one
\* _vizVersion names is left exactly as it was, so a run that completes after
\* a newer renderVizTab has started adds no chart and no message anywhere, and
\* the only chart to be seen is the latest generation's.
C1_StaleRunRendersNothing ==
  [][\A v \in DOMAIN runs : v # vizVersion' => runs'[v].sec = runs[v].sec]_vars

\* C1 witness: a run found itself stale after its fetches had settled.
C1_Witness ==
  \E v \in DOMAIN runs :
     /\ runs[v].st = "stale"
     /\ v < vizVersion
     /\ \E id \in DOMAIN runs[v].net : runs[v].net[id] = "ok"

\* C3 (SpecViz), as claimed: a work id whose fetches have all failed has no
\* entry in workRefsCache.
C3_FailedFetchLeavesNoEntry ==
  \A id \in DOMAIN workRefsCache : id \in resolvedOK

\* C5 (SpecViz): once fetchWorkRefs(id) has resolved with data, a chart run
\* that starts later sends no request for id and takes the refs of id from
\* workRefsCache.
C5_ResolvedWorkNeverRefetched ==
  [][\A v \in DOMAIN runs' \ DOMAIN runs : \A id \in DOMAIN runs'[v].net :
        id \in resolvedOK =>
          /\ runs'[v].net[id] = "cache"
          /\ runs'[v].refs[id] = workRefsCache[id]]_vars

\* C5 witness: a later run was served a resolved work from the cache.
C5_Witness ==
  \E v \in DOMAIN runs : \E id \in DOMAIN runs[v].net :
     /\ v > 1
     /\ id \in resolvedOK
     /\ runs[v].net[id] = "cache"
     /\ runs[v].refs[id] = WorkRefs(id)

\* C6 (SpecViz), as claimed: no step replaces an entry of workRefsCache by a
\* different value.
C6_CacheEntriesNeverReplaced ==
  [][\A id \in DOMAIN workRefsCache :
        /\ id \in DOMAIN workRefsCache'
        /\ workRefsCache'[id] = workRefsCache[id]]_vars

\* The buckets of a work list and per-work refs, computed without any order:
\* the bucket starts as a set, and each total as the number of citations.
RefPairs(ws, refs, b, width) ==
  {p \in UNION {{<< ws[i].id, k >> : k \in DOMAIN refs[ws[i].id]} : i \in DOMAIN ws} :
     /\ WorkOf(p[1]).year >= b
     /\ WorkOf(p[1]).year < b + width}

ExpectedStarts(ws, width) == {(ws[i].year \div width) * width : i \in DOMAIN ws}

ExpectedBucket(ws, refs, b, width) ==
  [b |-> b,
   worksCount |-> Cardinality({i \in DOMAIN ws : ws[i].year >= b /\ ws[i].year < b + width}),
   groupTotals |-> [g \in Sections |->
      Cardinality({p \in RefPairs(ws, refs, b, width) :
                     BOOK_GROUP_MAP(refs[p[1]][p[2]].book_slug) = g})],
   total |-> Cardinality(RefPairs(ws, refs, b, width))]

\* C8 (SpecViz): whatever the order in which the per-work fetches of a run
\* settled, the run goes on only when all have, and the buckets it renders
\* (starts, per-section totals, totals, work counts) are those determined by
\* its work list and the per-work results alone.
C8_BucketsIndependentOfCompletionOrder ==
  \A v \in DOMAIN runs :
     runs[v].st \in {"rendered", "nodata"} =>
       LET run == runs[v]
           width == BucketWidth(MaxYear(run.works) - MinYear(run.works))
           bs == run.sec.buckets
       IN  /\ \A id \in DOMAIN run.net : run.net[id] # "pending"
           /\ run.st = "nodata" <=> \A id \in DOMAIN run.refs : run.refs[id] = << >>
           /\ run.st = "rendered" =>
                /\ {bs[k].b : k \in DOMAIN bs} = ExpectedStarts(run.works, width)
                /\ Len(bs) = Cardinality(ExpectedStarts(run.works, width))
                /\ \A k \in DOMAIN bs :
                      bs[k] = ExpectedBucket(run.works, run.refs, bs[k].b, width)

\* C8 witness: a chart rendered from two fetched works whose responses came in
\* the reverse of the array order.
C8_Witness ==
  \E v \in DOMAIN runs :
     /\ runs[v].st = "rendered"
     /\ runs[v].order = << 2, 1 >>
     /\ runs[v].net[1] = "ok"
     /\ runs[v].net[2] = "ok"
     /\ runs[v].sec.buckets[1].total = 5


\* C2 (SpecSel), as claimed: whatever a visible detail view has rendered
\* belongs to the current selection: the work view to activeWorkId, the verse
\* table and the citation list to activeBook and activeChapter.
C2_RenderedViewIsCurrentSelection ==
  /\ (~hidden.workView /\ workRefsList.kind \in {"cards", "norefs"})
       => workRefsList.work = activeWorkId
  /\ (~hidden.verseView /\ verseTbody.kind \in {"rows", "norefs", "nocat"})
       => (verseTbody.book = activeBook /\ verseTbody.chapter = activeChapter)
  /\ (~hidden.chapterView /\ refsList.kind \in {"cards", "norefs"})
       => (refsList.book = activeBook /\ refsList.chapter = activeChapter)

\* C4 (SpecSel), as claimed: no load ends in a rejection that nothing catches,
\* and when the latest load has ended on a failed fetch its view is not left
\* showing "Loading...".
C4_FailedLoadShowsCouldNotLoad ==
  \A i \in DOMAIN calls :
     /\ calls[i].pc # "rejected"
     /\ (calls[i].pc \in {"error", "rejected"} /\ i = Len(calls)) =>
          IF calls[i].fn = "loadWork" THEN workRefsList.kind # "loading"
          ELSE IF calls[i].fn = "showVerseView" THEN verseTbody.kind # "loading"
          ELSE refsList.kind # "loading"

\* C7 (SpecSel), as claimed: a selection sends a request for a book slug only
\* while bookCache has no entry for it and for a work id only while that
\* work's detail has not been loaded before, and bookCache never loses an entry.
C7_LoadedDetailServedFromCache ==
  [][/\ bookCache \subseteq bookCache'
     /\ \A i \in DOMAIN calls' \ DOMAIN calls :
           /\ calls'[i].pc = "awaitBook" => calls'[i].book \notin bookCache
           /\ calls'[i].pc = "awaitWork" => calls'[i].work \notin workLoaded]_vars

\* C9 (SpecSel), as claimed: citations of works the index does not list leave
\* no trace: every card and every group is of a listed work, and every option
\* of the author filter is the author of a listed work.
C9_UnresolvedCitationInNoView ==
  /\ \A i \in DOMAIN refsList.cards : refsList.cards[i].w \in WorkIds
  /\ authorFilter \subseteq {Works[i].author : i \in DOMAIN Works}
  /\ verseTbody.kind = "rows" =>
       \A i \in DOMAIN verseTbody.rows :
          verseTbody.rows[i].count =
            Cardinality({k \in DOMAIN BookChapterRefs(verseTbody.book, verseTbody.chapter) :
               LET ref == BookChapterRefs(verseTbody.book, verseTbody.chapter)[k]
               IN  /\ ref.w \in WorkIds
                   /\ CatOf(WorkOf(ref.w)) \in checked
                   /\ primaryVerseKey(ref.v) = verseTbody.rows[i].key})

\* C10 (SpecHeat): for max >= 1 and 0 <= count <= max the level is 0 exactly
\* when count is 0, and otherwise 1, 2, 3 or 4 as count/max lies in [0, 0.15),
\* [0.15, 0.40), [0.40, 0.70) or [0.70, 1]; the ratios 3/20, 2/5 and 7/10
\* themselves get the higher level.
C10_HeatLevelBuckets ==
  (hLevel.done /\ hMax >= 1 /\ hCount <= hMax) =>
     /\ hLevel.level = 0 <=> hCount = 0
     /\ hCount > 0 =>
          /\ hLevel.level = 1 <=> 20 * hCount < 3 * hMax
          /\ hLevel.level = 2 <=> (3 * hMax <= 20 * hCount /\ 5 * hCount < 2 * hMax)
          /\ hLevel.level = 3 <=> (2 * hMax <= 5 * hCount /\ 10 * hCount < 7 * hMax)
          /\ hLevel.level = 4 <=> 7 * hMax <= 10 * hCount

\* C10 witness: count exactly at 0.15 of max, given level 2.
C10_Witness ==
  /\ hLevel.done
  /\ hCount > 0
  /\ 20 * hCount = 3 * hMax
  /\ hLevel.level = 2


\* C11 (SpecCount): for every chapter entry and every set of checked
\* categories, filteredCount is the sum of the counts of exactly the
\* categories of the breakdown that are checked (counted here as the number of
\* citations of those categories), and for an entry without a breakdown it is
\* the entry's count whatever is checked.
C11_FilteredCountIsReference ==
  output.done =>
    \A b \in DOMAIN input.index : \A i \in DOMAIN input.index[b].chapters :
       LET ch == input.index[b].chapters[i]
       IN  output.chapters[b][i] =
             IF ch.hasByCat
               THEN Cardinality({p \in (DOMAIN ch.by_cat \cap input.cats) \X (1..3) :
                                   p[2] <= ch.by_cat[p[1]]})
               ELSE ch.count

\* C11 witness: a breakdown of which one category is checked and one is not,
\* beside an entry of the old format counted in full with nothing checked
\* that it could list.
C11_Witness ==
  /\ output.done
  /\ input.cats = {"Apostolic"}
  /\ \E b \in DOMAIN input.index : \E i, j \in DOMAIN input.index[b].chapters :
        /\ input.index[b].chapters[i].hasByCat
        /\ DOMAIN input.index[b].chapters[i].by_cat = {"Apostolic", "Other"}
        /\ output.chapters[b][i] = 2
        /\ ~input.index[b].chapters[j].hasByCat
        /\ output.chapters[b][j] = 2

\* C12 (SpecCount), as claimed: every bar of the top-books chart carries the
\* sum of filteredCount over the book's chapters, as the heatmap cell and the
\* sidebar badge of the book do, a book with a positive sum has a bar, and the
\* donut's total is the sum of filteredCount over all chapters.
C12_ChartTotalsAreFilteredCounts ==
  output.done =>
    LET books == input.index
        sum(b) == SumChapters(books[b].chapters, input.cats)
    IN  /\ \A b \in DOMAIN books : output.badges[b].total = sum(b)
        /\ output.charts =>
             /\ \A b \in DOMAIN books :
                   /\ output.cells[b] = sum(b)
                   /\ sum(b) > 0 => \E k \in DOMAIN output.bars :
                                       /\ output.bars[k].slug = books[b].slug
                                       /\ output.bars[k].total = sum(b)
             /\ \A k \in DOMAIN output.bars :
                   \E b \in DOMAIN books : /\ output.bars[k].slug = books[b].slug
                                            /\ output.bars[k].total = sum(b)
             /\ output.donut = sum(1) + sum(2)


\* C13 (SpecKey): primaryVerseKey gives "whole" for null; for a string that
\* starts with a digit its longest prefix made of decimal digits only; and any
\* other string, the empty one included, unchanged.  It returns for null and
\* for every string.
C13_PrimaryVerseKey ==
  output.done =>
    LET v == input.v
        r == output.key
    IN  /\ v = NullV => r = Whole
        /\ (v # NullV /\ v # << >> /\ v[1] \in Digits) =>
              \E n \in 1..Len(v) :
                 /\ r = SubSeq(v, 1, n)
                 /\ \A i \in 1..n : v[i] \in Digits
                 /\ n < Len(v) => v[n + 1] \notin Digits
        /\ (v # NullV /\ (v = << >> \/ v[1] \notin Digits)) => r = v

\* C13 witness: the range "13-" is keyed by its leading run "13".
C13_Witness ==
  /\ output.done
  /\ input.v = << "1", "3", "-" >>
  /\ output.key = << "1", "3" >>


\* C14 (SpecGroup): the groups hold exactly the citations whose work is in
\* the index and whose category, "Other" when the work has none, is checked;
\* each of them once, in the one group whose key is primaryVerseKey of its
\* locator; the citations of a group are in input order; no group is empty and
\* no two groups share a key.
C14_GroupsPartitionKeptCitations ==
  output.done =>
    LET refs == input.refs
        g == output.groups
        kept(i) == /\ \E k \in DOMAIN Works : Works[k].id = refs[i].w
                   /\ \A k \in DOMAIN Works :
                         Works[k].id = refs[i].w =>
                           (IF Works[k].category = "" THEN "Other" ELSE Works[k].category)
                              \in input.cats
        places(i) == {p \in UNION {{<< k, n >> : n \in DOMAIN g[k].refs} : k \in DOMAIN g} :
                        g[p[1]].refs[p[2]] = i}
    IN  /\ \A k \in DOMAIN g : g[k].refs # << >>
        /\ \A k, l \in DOMAIN g : g[k].key = g[l].key => k = l
        /\ \A k \in DOMAIN g : \A m, n \in DOMAIN g[k].refs :
              m < n => g[k].refs[m] < g[k].refs[n]
        /\ \A i \in DOMAIN refs :
              /\ kept(i) => /\ Cardinality(places(i)) = 1
                            /\ \A p \in places(i) : g[p[1]].key = primaryVerseKey(refs[i].v)
              /\ ~kept(i) => places(i) = {}
        /\ \A k \in DOMAIN g : \A n \in DOMAIN g[k].refs : g[k].refs[n] \in DOMAIN refs

\* C14 witness: a citation of a work of an unchecked category is dropped, and
\* verse 9 and the range 9-1 of a work without a category share the group "9".
C14_Witness ==
  /\ output.done
  /\ input.cats = {"Other"}
  /\ \E i \in DOMAIN input.refs : input.refs[i].w = 1
  /\ \E k \in DOMAIN output.groups :
        /\ output.groups[k].key = << "9" >>
        /\ Len(output.groups[k].refs) = 2
        /\ input.refs[output.groups[k].refs[1]].v # input.refs[output.groups[k].refs[2]].v


\* Numeric value of a key made of digits.
C15_Value(k) == DigitsValue(LeadingDigits(k), 0)

\* C15 (SpecGroup), as claimed: the rows are a permutation of the group keys
\* with "whole" first when it is a key; of two other keys that start with a
\* number, the one of the smaller number comes first; and the order is the
\* same for every order in which the groups could have been met.
C15_KeysWholeFirstThenNumeric ==
  (output.done /\ output.kind = "rows") =>
    LET keys == [k \in DOMAIN output.groups |-> output.groups[k].key]
        ord == output.ordered
    IN  /\ Len(ord) = Len(keys)
        /\ {ord[i] : i \in DOMAIN ord} = {keys[i] : i \in DOMAIN keys}
        /\ (\E i \in DOMAIN keys : keys[i] = Whole) => ord[1] = Whole
        /\ \A i, j \in DOMAIN ord :
              (/\ LeadingDigits(ord[i]) # << >>
               /\ LeadingDigits(ord[j]) # << >>
               /\ C15_Value(ord[i]) < C15_Value(ord[j])) => i < j
        /\ \A p \in KeyPermutations(keys) : OrderedKeysOutcomes(p) = {ord}


\* The character an escaped token is shown as.
C16_Shown(tok) ==
  CASE tok = "&amp;" -> "&" [] tok = "&lt;" -> "<" [] tok = "&gt;" -> ">"
    [] tok = "&quot;" -> "\"" [] OTHER -> tok

C16_Text(html) == [i \in DOMAIN html |-> C16_Shown(html[i])]

\* C16 (SpecMark): highlightPassage returns for every text, chapter and
\* locator, and what it returns shows, before the mark, in it and after it,
\* the slices [0, s), [s, e) and [e, len) of the text for some
\* 0 <= s <= e <= len: put together, the three pieces are the text.
C16_PiecesAreContiguousSlices ==
  output.done =>
    LET t == input.text
        h == output.html
    IN  /\ \E s, e \in 0..Len(t) :
              /\ s <= e
              /\ C16_Text(h.prefix) = SubSeq(t, 1, s)
              /\ C16_Text(h.mark) = SubSeq(t, s + 1, e)
              /\ C16_Text(h.suffix) = SubSeq(t, e + 1, Len(t))
        /\ C16_Text(h.prefix) \o C16_Text(h.mark) \o C16_Text(h.suffix) = t

\* C16 witness: in ". A4:7. A" the sentence "A4:7." around the citation is
\* marked, between a prefix and a suffix that are not empty.
C16_Witness ==
  /\ output.done
  /\ input.text = << ".", " ", "A", "4", ":", "7", ".", " ", "A" >>
  /\ output.html.marked
  /\ output.html.prefix = << ".", " " >>
  /\ output.html.mark = << "A", "4", ":", "7", "." >>
  /\ output.html.suffix = << " ", "A" >>

\* The verse numbers the locator's first component (up to "-" or ",", blanks
\* around it aside) stands for: the component itself when it is all digits.
C17_VerseNumbers(v) ==
  IF v = NullV THEN {}
  ELSE LET n == CHOOSE x \in 0..Len(v) :
                  /\ \A k \in 1..x : v[k] \notin {"-", ","}
                  /\ x < Len(v) => v[x + 1] \in {"-", ","}
       IN  {d \in {SubSeq(v, i, j) : i \in 1..n, j \in 1..n} :
              /\ d # << >>
              /\ \A k \in DOMAIN d : d[k] \in Digits
              /\ \E i \in 1..n : /\ d = SubSeq(v, i, i + Len(d) - 1)
                                 /\ i + Len(d) - 1 <= n
                                 /\ \A k \in 1..(i - 1) : v[k] \in {" ", "\n"}
                                 /\ \A k \in (i + Len(d))..n : v[k] \in {" ", "\n"}}

\* The numerals of the model's chapters.
C17_Numerals(chapter) ==
  IF chapter = 4 THEN {<< "4" >>, << "i", "v" >>, << "I", "V" >>, << "i", "V" >>, << "I", "v" >>}
  ELSE {<< "1", "4" >>} \cup
       {<< a, b, c >> : a \in {"x", "X"}, b \in {"i", "I"}, c \in {"v", "V"}}

\* The citation of chapter and verse d occurs in t: a numeral of the chapter,
\* one or more of ".", ":" and blanks, and d not followed by a letter or digit.
C17_CitationOccurs(t, chapter, d) ==
  \E i \in 1..Len(t), j \in 1..Len(t), k \in 1..Len(t) :
     /\ i <= j /\ j + 1 < k
     /\ SubSeq(t, i, j) \in C17_Numerals(chapter)
     /\ \A x \in (j + 1)..(k - 1) : t[x] \in {".", ":", " ", "\n"}
     /\ k + Len(d) - 1 <= Len(t)
     /\ SubSeq(t, k, k + Len(d) - 1) = d
     /\ (k + Len(d) <= Len(t)) =>
           t[k + Len(d)] \notin Digits \cup LowerLetters \cup UpperLetters \cup {"_"}

\* C17 (SpecMark): when the locator is null or "whole", or the text is empty,
\* or the citation of the chapter and the locator's verse occurs nowhere in
\* the text, highlightPassage marks nothing and returns the whole text,
\* escaped, as the unmarked piece.
C17_NoMatchMarksNothing ==
  (/\ output.done
   /\ \/ input.v \in {NullV, Whole}
      \/ input.text = << >>
      \/ \A d \in C17_VerseNumbers(input.v) :
            ~C17_CitationOccurs(input.text, input.chapter, d)) =>
    /\ ~output.html.marked
    /\ output.html.mark = << >>
    /\ output.html.suffix = << >>
    /\ C16_Text(output.html.prefix) = input.text

\* C17 witness: "4:71" holds no citation of verse 7, and nothing is marked.
C17_Witness ==
  /\ output.done
  /\ input.text = << "4", ":", "7", "1" >>
  /\ input.chapter = 4
  /\ input.v = << "7" >>
  /\ ~output.html.marked
  /\ output.html.prefix = input.text


\* The years of the dated works of the checked categories.
C18_ActiveYears ==
  {input.works[i].year : i \in {k \in DOMAIN input.works :
      /\ input.works[k].hasYear
      /\ (IF input.works[k].category = "" THEN "Other" ELSE input.works[k].category)
            \in input.cats}}

\* C18 (SpecEra): the bucket width the chart is described and built with is
\* 25, 50, 100, 200 or 500 as the span of the years of the dated works of the
\* checked categories is below 200, 500, 1000, 2000 or not; undated works and
\* works of other categories have no part in the span.
C18_BucketWidthBySpan ==
  (output.done /\ output.charts /\ output.run.st \in {"rendered", "nodata"}) =>
    \E lo \in C18_ActiveYears, hi \in C18_ActiveYears :
       /\ \A y \in C18_ActiveYears : lo <= y /\ y <= hi
       /\ output.run.st = "rendered" => output.run.sec.width # 0
       /\ output.run.sec.width # 0 =>
            /\ hi - lo < 200 <=> output.run.sec.width = 25
            /\ (200 <= hi - lo /\ hi - lo < 500) <=> output.run.sec.width = 50
            /\ (500 <= hi - lo /\ hi - lo < 1000) <=> output.run.sec.width = 100
            /\ (1000 <= hi - lo /\ hi - lo < 2000) <=> output.run.sec.width = 200
            /\ 2000 <= hi - lo <=> output.run.sec.width = 500

\* C18 witness: two checked works 200 years apart give 50-year buckets.
C18_Witness ==
  /\ output.done
  /\ output.charts
  /\ output.run.st = "rendered"
  /\ C18_ActiveYears = {0, 200}
  /\ output.run.sec.width = 50


\* The places of input.works that hold a work of a checked category, dated
\* or undated.
C19_Active(dated) ==
  {i \in DOMAIN input.works :
     /\ input.works[i].hasYear = dated
     /\ (IF input.works[i].category = "" THEN "Other" ELSE input.works[i].category)
           \in input.cats}

C20_Canon ==
  << "Pentateuch", "Historical", "Poetic", "Maj. Prophets", "Min. Prophets",
     "Deuterocanon", "Gospels", "Acts & Epistles", "Revelation" >>

C20_Place(g) == CHOOSE i \in DOMAIN C20_Canon : C20_Canon[i] = g

\* C20 (SpecEra): the buckets come in strictly ascending order of start year,
\* and every bar stacks, from the bottom up, exactly the sections its bucket
\* has citations of, in canonical order, whatever the order of the works and
\* of their citations: an Old Testament section is below every New Testament
\* section.
C20_BucketsAscendingSectionsCanonical ==
  (output.done /\ output.charts /\ output.run.st = "rendered") =>
    LET bs == output.run.sec.buckets
    IN  /\ \A k, l \in DOMAIN bs : k < l => bs[k].b < bs[l].b
        /\ DOMAIN output.bars = DOMAIN bs
        /\ \A k \in DOMAIN bs :
              LET bar == output.bars[k]
              IN  /\ \A m, n \in DOMAIN bar :
                        m < n => C20_Place(bar[m].g) < C20_Place(bar[n].g)
                  /\ {bar[m].g : m \in DOMAIN bar} =
                       {g \in DOMAIN bs[k].groupTotals : bs[k].groupTotals[g] > 0}
                  /\ \A m \in DOMAIN bar : bar[m].count = bs[k].groupTotals[bar[m].g]
        /\ \A m, n \in DOMAIN output.run.sec.groups :
              m < n => C20_Place(output.run.sec.groups[m]) < C20_Place(output.run.sec.groups[n])

\* C20 witness: two buckets; the first bar, of a work citing John before
\* Genesis, has Pentateuch at the bottom and Gospels on top.
C20_Witness ==
  /\ output.done
  /\ output.charts
  /\ output.run.st = "rendered"
  /\ Len(output.run.sec.buckets) = 2
  /\ input.works[1].year < input.works[2].year
  /\ [m \in DOMAIN output.bars[1] |-> output.bars[1][m].g] = << "Pentateuch", "Gospels" >>


\* C21 (SpecHeatCalls): in every call of heatLevel made by the sidebar, the
\* verse table and the book heatmap, 0 <= count <= max, and max >= 1 whenever
\* count > 0: heatLevel is never reached with max = 0 and count > 0.
C21_MaxBoundsCount ==
  output.done =>
    \A call \in output.heat :
       /\ 0 <= call.count
       /\ call.count <= call.max
       /\ call.count > 0 => call.max >= 1
       /\ ~(call.max = 0 /\ call.count > 0)

\* C21 witness, sidebar and heatmap: a dot below its book's maximum, and a
\* book cell with count 0 under a positive maximum.
C21_Witness ==
  /\ output.done
  /\ input.fn = "counts"
  /\ \E call \in output.heat : call.by = "sidebar" /\ 0 < call.count /\ call.count < call.max
  /\ \E call \in output.heat : call.by = "heatmap" /\ call.count = 0 /\ call.max > 1


\* The leading digit run of a locator.
C22_DigitRun(v) ==
  LET n == CHOOSE k \in 0..Len(v) :
              /\ \A i \in 1..k : v[i] \in Digits
              /\ k < Len(v) => v[k + 1] \notin Digits
  IN  SubSeq(v, 1, n)

\* C22 (SpecMark): for a text that is not empty, when the locator begins with
\* a digit the verse number highlightPassage searches for is the locator's
\* leading digit run, which is what primaryVerseKey returns for it, whatever
\* follows the digits; a locator without a leading digit run gives no
\* highlight.
C22_SearchesLeadingDigitRun ==
  (output.done /\ input.text # << >> /\ input.v # NullV) =>
    IF C22_DigitRun(input.v) # << >>
      THEN /\ output.verse = C22_DigitRun(input.v)
           /\ output.verse = primaryVerseKey(input.v)
      ELSE ~output.html.marked


\* Character p (counted from 0) of the text handed to highlightPassage.
C23_Char(p) == input.text[p + 1]

\* From position p on, the text has whitespace and then an uppercase letter or
\* an opening quote or bracket.
C23_FollowOn(p) ==
  \E q \in (p + 1)..(Len(input.text) - 1) :
     /\ \A x \in p..(q - 1) : C23_Char(x) \in {" ", "\n"}
     /\ C23_Char(q) \in UpperLetters \cup {"\"", "(", "["}

\* The places where the backward scan may stop: just after two consecutive
\* newlines, or just after a '.', '!' or '?' with the follow-on; the start of
\* the text when there is none.
C23_Stops ==
  {0} \cup
  {p \in 1..output.scan.index :
     \/ p >= 2 /\ C23_Char(p - 1) = "\n" /\ C23_Char(p - 2) = "\n"
     \/ C23_Char(p - 1) \in {".", "!", "?"} /\ C23_FollowOn(p)}

\* C23 (SpecMark): the backward scan from the match stops at the nearest
\* paragraph break or sentence end before the match and nowhere else (a period
\* without the follow-on never starts the highlight); the highlight then
\* starts after the plain spaces found there, never begins with a plain space
\* and contains the whole match.
C23_BackwardScanStopsAtSentenceStart ==
  (output.done /\ output.html.marked) =>
    /\ output.scan.back \in C23_Stops
    /\ \A p \in C23_Stops : p <= output.scan.back
    /\ output.scan.back <= output.scan.s
    /\ output.scan.s <= output.scan.index
    /\ \A x \in output.scan.back..(output.scan.s - 1) : C23_Char(x) = " "
    /\ C23_Char(output.scan.s) # " "
    /\ output.scan.e >= output.scan.end
    /\ C16_Text(output.html.prefix) = SubSeq(input.text, 1, output.scan.s)
    /\ C16_Text(output.html.mark) = SubSeq(input.text, output.scan.s + 1, output.scan.e)


\* After the closing quotes and brackets that follow position k, the text
\* ends, or holds only whitespace, or whitespace and then an uppercase letter
\* or an opening quote or bracket.
C24_EndsSentence(k) ==
  \E j \in (k + 1)..Len(input.text) :
     /\ \A x \in (k + 1)..(j - 1) : C23_Char(x) \in {"'", "\"", ")", "]"}
     /\ j < Len(input.text) => C23_Char(j) \notin {"'", "\"", ")", "]"}
     /\ \/ j = Len(input.text)
        \/ \A x \in j..(Len(input.text) - 1) : C23_Char(x) \in {" ", "\n"}
        \/ C23_FollowOn(j)

\* The places from the end of the match on where the highlight may end, each
\* with the position of the character that ends it: just after a '.', '!' or
\* '?' that ends a sentence, or after both newlines of a double newline.
C24_Ends ==
  {[at |-> k, e |-> k + 1] :
     k \in {k \in output.scan.end..(Len(input.text) - 1) :
              C23_Char(k) \in {".", "!", "?"} /\ C24_EndsSentence(k)}}
  \cup
  {[at |-> k, e |-> k + 2] :
     k \in {k \in output.scan.end..(Len(input.text) - 2) :
              C23_Char(k) = "\n" /\ C23_Char(k + 1) = "\n"}}

\* C24 (SpecMark): the forward scan from the end of the match ends the
\* highlight at the first of these places, and at the end of the text when
\* there is none.
C24_ForwardScanEndsSentence ==
  (output.done /\ output.html.marked) =>
    /\ C24_Ends = {} => output.scan.e = Len(input.text)
    /\ C24_Ends # {} =>
          \E first \in C24_Ends :
             /\ \A other \in C24_Ends : first.at <= other.at
             /\ output.scan.e = first.e
    /\ C16_Text(output.html.mark) = SubSeq(input.text, output.scan.s + 1, output.scan.e)
    /\ C16_Text(output.html.suffix) =
         SubSeq(input.text, output.scan.e + 1, Len(input.text))

\* C24 witness: in "4:7?\" " the highlight ends just after the '?', before
\* the closing quote that is skipped to find only whitespace.
C24_Witness ==
  /\ output.done
  /\ output.html.marked
  /\ input.text = << "4", ":", "7", "?", "\"", " " >>
  /\ output.scan.e = 4
  /\ C16_Text(output.html.mark) = << "4", ":", "7", "?" >>


\* The section of the slugs the works of SpecEra cite; a slug outside the
\* Protestant canon counts as Deuterocanon.
C25_Section(slug) ==
  CASE slug = "genesis" -> "Pentateuch"
    [] slug = "psalms" -> "Poetic"
    [] slug = "john" -> "Gospels"
    [] slug = "revelation" -> "Revelation"
    [] OTHER -> "Deuterocanon"

\* The dated works of the checked categories whose year lies in [b, b + width).
C25_WorksIn(b, width) ==
  {i \in C19_Active(TRUE) : b <= input.works[i].year /\ input.works[i].year < b + width}

\* The citations of a set of works: a work and a place in its citation list.
C25_Citations(ws) == UNION {{<< i, n >> : n \in DOMAIN input.refs[i]} : i \in ws}

\* C25 (SpecEra): every dated work of the checked categories lies in exactly
\* one bucket [b, b + width) with b a multiple of the width; a bucket's total
\* for a section is the number of citations of its works whose slug maps to
\* the section (unknown slugs to Deuterocanon); its total is the sum of its
\* section totals; its work count is the number of works that contribute a
\* citation to it.
C25_BucketsPartitionWorks ==
  (output.done /\ output.charts /\ output.run.st = "rendered") =>
    LET bs == output.run.sec.buckets
        width == output.run.sec.width
    IN  /\ \A k \in DOMAIN bs : bs[k].b % width = 0
        /\ \A i \in C19_Active(TRUE) :
              Cardinality({k \in DOMAIN bs : i \in C25_WorksIn(bs[k].b, width)}) = 1
        /\ \A k \in DOMAIN bs :
              LET ws == C25_WorksIn(bs[k].b, width)
              IN  /\ \A g \in DOMAIN bs[k].groupTotals :
                        bs[k].groupTotals[g] =
                          Cardinality({c \in C25_Citations(ws) :
                                         C25_Section(input.refs[c[1]][c[2]].book_slug) = g})
                  /\ bs[k].total =
                       Cardinality(UNION {{<< g, n >> : n \in 1..bs[k].groupTotals[g]} :
                                            g \in DOMAIN bs[k].groupTotals})
                  /\ bs[k].total = Cardinality(C25_Citations(ws))
                  /\ bs[k].worksCount =
                       Cardinality({i \in ws : input.refs[i] # << >>})


\* The main panels that are visible.
C26_Visible ==
  {p \in {"welcome", "verseView", "chapterView", "workView", "vizView"} : ~hidden[p]}

\* C26 (SpecPanels): after any sequence of mode switches, book toggles and
\* chapter, verse and work selections exactly one main panel is visible, and
\* the verse table or the citation list is visible only while a book and a
\* chapter are selected.
C26_OnePanelAndSelection ==
  /\ Cardinality(C26_Visible) = 1
  /\ (~hidden.verseView \/ ~hidden.chapterView) =>
        (activeBook # Null /\ activeChapter # NoChapter)

====
